---- MODULE Spec2Model ----
(***************************************************************************)
(* Verification model of the Brocs Mahjong room server                     *)
(* (party/server.ts, class MahjongRoom) and of the game engine it calls    *)
(* (engine/gameEngine.ts).                                                 *)
(*                                                                         *)
(* Tiles are records [id, definition]; ids are the numbers n of the        *)
(* source's `t${n}` strings.  A definition is a record [type, kind, value] *)
(* where kind holds the suit / direction / color / bonusType of the        *)
(* source's tagged union and value is 0 for winds and dragons.             *)
(* The display-only fields (faceUp, name, avatar, isReady) are left out.   *)
(* Player indices are 0..3 as in the source.                               *)
(***************************************************************************)
EXTENDS Integers, Sequences, FiniteSets, TLC

Seats == 0..3

(* ----------------------------------------------------------------------- *)
(* Tile definitions (types/game.ts)                                        *)
(* ----------------------------------------------------------------------- *)

SuitT(s, v) == [type |-> "suit", kind |-> s, value |-> v]
WindT(d) == [type |-> "wind", kind |-> d, value |-> 0]
DragonT(c) == [type |-> "dragon", kind |-> c, value |-> 0]
BonusT(b, v) == [type |-> "bonus", kind |-> b, value |-> v]

\* JavaScript null / undefined for a tile, a definition and an index.
NullDef == [type |-> "null", kind |-> "null", value |-> 0]
NullTile == [id |-> -1, definition |-> NullDef]
NullIdx == -1

SuitNames == <<"bamboo", "character", "dot">>
WindNames == <<"east", "south", "west", "north">>
DragonNames == <<"red", "green", "white">>

\* n copies of x
Copies(x, n) == [i \in 1..n |-> x]

RECURSIVE Flatten(_)
Flatten(ss) == IF ss = <<>> THEN <<>> ELSE Head(ss) \o Flatten(Tail(ss))

generateTileSet ==
  Flatten([s \in 1..3 |-> Flatten([v \in 1..9 |-> Copies(SuitT(SuitNames[s], v), 4)])])
  \o Flatten([d \in 1..4 |-> Copies(WindT(WindNames[d]), 4)])
  \o Flatten([c \in 1..3 |-> Copies(DragonT(DragonNames[c]), 4)])
  \o Flatten([v \in 1..4 |-> <<BonusT("flower", v), BonusT("animal", v)>>])

(* ----------------------------------------------------------------------- *)
(* Sequence helpers standing for the JavaScript array methods used         *)
(* ----------------------------------------------------------------------- *)

\* `const v = e; ...`: e is evaluated once and F applied to its value.
Let(e, F(_)) == CHOOSE out \in {F(v) : v \in {e}} : TRUE

Range(s) == {s[i] : i \in 1..Len(s)}

\* The least number of a non-empty set of numbers
Least(S) == CHOOSE i \in S : \A j \in S : i <= j

\* Array.prototype.findIndex, 1-based, 0 when absent
FindIndex(s0, P(_)) ==
  Let(s0, LAMBDA s :
    Let({i \in 1..Len(s) : P(s[i])}, LAMBDA found :
      IF found = {} THEN 0 ELSE Least(found)))

RemoveAt(s, i) == SubSeq(s, 1, i - 1) \o SubSeq(s, i + 1, Len(s))

Take(s, n) == SubSeq(s, 1, n)

RECURSIVE SumSeq(_)
SumSeq(s0) ==
  Let(s0, LAMBDA s : IF s = <<>> THEN 0 ELSE Head(s) + SumSeq(Tail(s)))

IdsOf(tiles) == {tiles[i].id : i \in 1..Len(tiles)}

(* ----------------------------------------------------------------------- *)
(* Tile comparison helpers (gameEngine.ts)                                 *)
(* ----------------------------------------------------------------------- *)

tilesMatch(a, b) ==
  IF a.type # b.type THEN FALSE
  ELSE IF a.type = "suit" THEN a.kind = b.kind /\ a.value = b.value
  ELSE IF a.type = "wind" THEN a.kind = b.kind
  ELSE IF a.type = "dragon" THEN a.kind = b.kind
  ELSE a.kind = b.kind /\ a.value = b.value

tileOrder(def) ==
  IF def.type = "suit"
  THEN (IF def.kind = "character" THEN 0 ELSE IF def.kind = "bamboo" THEN 1 ELSE 2) * 10
       + def.value
  ELSE IF def.type = "wind"
  THEN 30 + (CASE def.kind = "east" -> 0 [] def.kind = "south" -> 1
               [] def.kind = "west" -> 2 [] OTHER -> 3)
  ELSE IF def.type = "dragon"
  THEN 40 + (CASE def.kind = "red" -> 0 [] def.kind = "green" -> 1 [] OTHER -> 2)
  ELSE 50 + (IF def.kind = "flower" THEN 0 ELSE 4) + def.value

\* Array.prototype.sort with the comparator (a, b) => K(a) - K(b); the sort is
\* stable: the tile at i comes after the tiles of a smaller key and after the
\* tiles of the same key that stand before it.
SortBy(K(_), tiles0) ==
  Let(tiles0, LAMBDA tiles :
    Let([i \in 1..Len(tiles) |-> K(tiles[i])], LAMBDA key :
      Let([i \in 1..Len(tiles) |->
             1 + Cardinality({j \in 1..Len(tiles) :
                    key[j] < key[i] \/ (key[j] = key[i] /\ j < i)})],
          LAMBDA place :
            [k \in 1..Len(tiles) |-> tiles[CHOOSE i \in 1..Len(tiles) : place[i] = k]])))

HandKey(t) == tileOrder(t.definition)

sortHand(tiles) == SortBy(HandKey, tiles)

(* ----------------------------------------------------------------------- *)
(* Game state (types/game.ts: Player, Meld, GameState)                     *)
(* ----------------------------------------------------------------------- *)

NewPlayer(wind, hand, bonuses, current, score) ==
  [seatWind |-> wind, hand |-> hand, discards |-> <<>>, melds |-> <<>>,
   revealedBonuses |-> bonuses, isCurrentTurn |-> current, score |-> score]

\* this.gameState = null
NullGame ==
  [phase |-> "null", players |-> [i \in Seats |-> NewPlayer("east", <<>>, <<>>, FALSE, 0)],
   wall |-> <<>>, currentPlayerIndex |-> 0, roundWind |-> "east", roundNumber |-> 0,
   turnNumber |-> 0, lastDiscard |-> NullTile, lastDiscardPlayer |-> NullIdx,
   tilesRemaining |-> 0]

(* ----------------------------------------------------------------------- *)
(* Core game operations (gameEngine.ts)                                    *)
(* ----------------------------------------------------------------------- *)

\* The replacement loop `while (currentTile.definition.type === 'bonus')` that
\* drawTile, doKong and doSelfKong share: replacements come from the wall tail.
\* c holds the loop's variables wall, currentTile and revealedBonuses.
RECURSIVE BonusChain(_)
BonusChain(c0) ==
  Let(c0, LAMBDA c :
    IF c.currentTile.definition.type = "bonus"
    THEN IF c.wall = <<>>
         THEN [c EXCEPT !.revealedBonuses = Append(@, c.currentTile)]
         ELSE BonusChain([wall |-> SubSeq(c.wall, 1, Len(c.wall) - 1),
                          currentTile |-> c.wall[Len(c.wall)],
                          revealedBonuses |-> Append(c.revealedBonuses, c.currentTile)])
    ELSE c)

\* A replacement taken with wall.shift() instead of wall.pop()
PopChainFromHead(wall) ==
  BonusChain([wall |-> Tail(wall), currentTile |-> Head(wall), revealedBonuses |-> <<>>])

\* const tile = wall.pop()
PopChain(wall) ==
  BonusChain([wall |-> SubSeq(wall, 1, Len(wall) - 1), currentTile |-> wall[Len(wall)],
              revealedBonuses |-> <<>>])

\* drawTile without the test of finalTileIsBonus: the last tile of the chain
\* goes to the hand whatever it is
drawTileKeepsLast(state, playerIndex) ==
  IF state.wall = <<>> THEN [state EXCEPT !.phase = "finished"]
  ELSE Let(BonusChain([wall |-> Tail(state.wall), currentTile |-> Head(state.wall),
                       revealedBonuses |-> <<>>]),
           LAMBDA c :
             LET finalTileIsBonus == c.currentTile.definition.type = "bonus"
             IN [state EXCEPT
                   !.wall = c.wall,
                   !.players[playerIndex].hand = Append(@, c.currentTile),
                   !.players[playerIndex].revealedBonuses = @ \o c.revealedBonuses,
                   !.tilesRemaining = Len(c.wall),
                   !.phase = IF Len(c.wall) = 0 /\ finalTileIsBonus THEN "finished" ELSE @])

drawTile(state, playerIndex) ==
  IF state.wall = <<>> THEN [state EXCEPT !.phase = "finished"]
  ELSE Let(BonusChain([wall |-> Tail(state.wall), currentTile |-> Head(state.wall),
                       revealedBonuses |-> <<>>]),
           LAMBDA c :
             LET finalTileIsBonus == c.currentTile.definition.type = "bonus"
             IN [state EXCEPT
                   !.wall = c.wall,
                   !.players[playerIndex].hand =
                       IF finalTileIsBonus THEN @ ELSE Append(@, c.currentTile),
                   !.players[playerIndex].revealedBonuses = @ \o c.revealedBonuses,
                   !.tilesRemaining = Len(c.wall),
                   !.phase = IF Len(c.wall) = 0 /\ finalTileIsBonus THEN "finished" ELSE @])

\* `tileIdx !== -1`: the discard is applied (the source tests `after !== gs`
\* nowhere for a discard, so the caller goes on in both cases).
discardTileApplies(state, playerIndex, tileId) ==
  \E i \in 1..Len(state.players[playerIndex].hand) :
     state.players[playerIndex].hand[i].id = tileId

discardTile(state, playerIndex, tileId) ==
  LET player == state.players[playerIndex]
  IN Let(FindIndex(player.hand, LAMBDA t : t.id = tileId), LAMBDA tileIdx :
       IF tileIdx = 0 THEN state
       ELSE LET discarded == player.hand[tileIdx]
                newHand == RemoveAt(player.hand, tileIdx)
            IN [state EXCEPT
                  !.players = [i \in Seats |->
                     IF i # playerIndex THEN [state.players[i] EXCEPT !.isCurrentTurn = FALSE]
                     ELSE [player EXCEPT !.hand = sortHand(newHand),
                                         !.discards = Append(@, discarded),
                                         !.isCurrentTurn = FALSE]],
                  !.lastDiscard = discarded,
                  !.lastDiscardPlayer = playerIndex,
                  !.turnNumber = @ + 1])

advanceTurn(state) ==
  LET next == (state.currentPlayerIndex + 1) % 4
  IN [state EXCEPT
        !.currentPlayerIndex = next,
        !.players = [i \in Seats |-> [state.players[i] EXCEPT !.isCurrentTurn = (i = next)]]]
(* ----------------------------------------------------------------------- *)
(* Claim checks.  A `Tile[] | null` result is a sequence, <<>> for null.   *)
(* ----------------------------------------------------------------------- *)

Matching(hand, def) == SelectSeq(hand, LAMBDA t : tilesMatch(t.definition, def))

canPong(hand, discardDef) ==
  Let(Matching(hand, discardDef), LAMBDA matching :
    IF Len(matching) >= 2 THEN Take(matching, 2) ELSE <<>>)

canKong(hand, discardDef) ==
  Let(Matching(hand, discardDef), LAMBDA matching :
    IF Len(matching) >= 3 THEN Take(matching, 3) ELSE <<>>)

\* (discarderIndex + 1) % 4 in JavaScript, where null + 1 is 1
NextAfter(discarderIndex) ==
  IF discarderIndex = NullIdx THEN 1 ELSE (discarderIndex + 1) % 4

\* One [v1, v2] of the loop over `sequences`: the option it pushes, if any
ChiOption(suitTiles, v1, v2) ==
  IF v1 < 1 \/ v1 > 9 \/ v2 < 1 \/ v2 > 9 THEN <<>>
  ELSE Let(FindIndex(suitTiles, LAMBDA t : t.definition.value = v1), LAMBDA i1 :
         IF i1 = 0 THEN <<>>
         ELSE Let(FindIndex(suitTiles, LAMBDA t :
                     t.definition.value = v2 /\ t.id # suitTiles[i1].id),
                  LAMBDA i2 :
                    IF i2 = 0 THEN <<>> ELSE <<<<suitTiles[i1], suitTiles[i2]>>>>))

\* canAllChi looking for the two neighbours among the suit tiles of every
\* suit, not only the suit of the discard
canAllChiAnySuit(hand, discardDef, claimerIndex, discarderIndex) ==
  IF NextAfter(discarderIndex) # claimerIndex THEN <<>>
  ELSE IF discardDef.type # "suit" THEN <<>>
  ELSE Let(SelectSeq(hand, LAMBDA t : t.definition.type = "suit"),
           LAMBDA suitTiles :
             LET val == discardDef.value
             IN ChiOption(suitTiles, val - 2, val - 1)
                \o ChiOption(suitTiles, val - 1, val + 1)
                \o ChiOption(suitTiles, val + 1, val + 2))

canAllChi(hand, discardDef, claimerIndex, discarderIndex) ==
  IF NextAfter(discarderIndex) # claimerIndex THEN <<>>
  ELSE IF discardDef.type # "suit" THEN <<>>
  ELSE Let(SelectSeq(hand, LAMBDA t :
              t.definition.type = "suit" /\ t.definition.kind = discardDef.kind),
           LAMBDA suitTiles :
             LET val == discardDef.value
             IN ChiOption(suitTiles, val - 2, val - 1)
                \o ChiOption(suitTiles, val - 1, val + 1)
                \o ChiOption(suitTiles, val + 1, val + 2))

canChi(hand, discardDef, claimerIndex, discarderIndex) ==
  Let(canAllChi(hand, discardDef, claimerIndex, discarderIndex), LAMBDA all :
    IF Len(all) > 0 THEN all[1] ELSE <<>>)

(* ----------------------------------------------------------------------- *)
(* Claims applied.  The callers test `result !== gs`; XApplies is that     *)
(* test: the operation did not take one of its `return state` exits.       *)
(* ----------------------------------------------------------------------- *)

\* The players array every claim builds: the claimer gets the meld and the
\* turn flag, the discarder loses the discard from the pile.
ClaimPlayers(state, claimerIndex, usedTiles, meld) ==
  LET discard == state.lastDiscard
      discarderIdx == state.lastDiscardPlayer
      usedIds == IdsOf(usedTiles)
  IN [i \in Seats |->
        IF i = claimerIndex
        THEN [state.players[i] EXCEPT
                !.hand = sortHand(SelectSeq(@, LAMBDA t : t.id \notin usedIds)),
                !.melds = Append(@, meld),
                !.isCurrentTurn = TRUE]
        ELSE IF i = discarderIdx
        THEN [state.players[i] EXCEPT
                !.discards = SelectSeq(@, LAMBDA t : t.id # discard.id),
                !.isCurrentTurn = FALSE]
        ELSE [state.players[i] EXCEPT !.isCurrentTurn = FALSE]]

\* What every claim returns: the claimer is to play, the discard is consumed.
Claimed(state, claimerIndex, players) ==
  [state EXCEPT
     !.players = players,
     !.currentPlayerIndex = claimerIndex,
     !.lastDiscard = NullTile,
     !.lastDiscardPlayer = NullIdx]

ChiValue(t) == IF t.definition.type = "suit" THEN t.definition.value ELSE 0

doChiApplies(state, claimerIndex, chiTiles) == state.lastDiscard # NullTile

doChi(state, claimerIndex, chiTiles) ==
  IF state.lastDiscard = NullTile THEN state
  ELSE Let([type |-> "chi", tiles |-> SortBy(ChiValue, Append(chiTiles, state.lastDiscard))],
           LAMBDA meld :
             Claimed(state, claimerIndex,
                     ClaimPlayers(state, claimerIndex, chiTiles, meld)))

doPongApplies(state, claimerIndex) ==
  /\ state.lastDiscard # NullTile
  /\ canPong(state.players[claimerIndex].hand, state.lastDiscard.definition) # <<>>

doPong(state, claimerIndex) ==
  IF state.lastDiscard = NullTile THEN state
  ELSE Let(canPong(state.players[claimerIndex].hand, state.lastDiscard.definition),
           LAMBDA pongTiles :
             IF pongTiles = <<>> THEN state
             ELSE Claimed(state, claimerIndex,
                    ClaimPlayers(state, claimerIndex, pongTiles,
                       [type |-> "pong", tiles |-> Append(pongTiles, state.lastDiscard)])))

doKongApplies(state, claimerIndex) ==
  /\ state.lastDiscard # NullTile
  /\ canKong(state.players[claimerIndex].hand, state.lastDiscard.definition) # <<>>

\* The replacement draw of doKong, on the state the claim has produced.
KongDraw(claimed, claimerIndex) ==
  IF Len(claimed.wall) > 0
  THEN Let(PopChain(claimed.wall), LAMBDA c :
         LET finalIsBonus == c.currentTile.definition.type = "bonus"
         IN [claimed EXCEPT
               !.wall = c.wall,
               !.players[claimerIndex].hand =
                   IF finalIsBonus THEN @ ELSE sortHand(Append(@, c.currentTile)),
               !.players[claimerIndex].revealedBonuses = @ \o c.revealedBonuses,
               !.tilesRemaining = Len(c.wall),
               !.phase = IF Len(c.wall) = 0 /\ finalIsBonus THEN "finished" ELSE @])
  ELSE [claimed EXCEPT !.tilesRemaining = Len(claimed.wall)]

doKong(state, claimerIndex) ==
  IF state.lastDiscard = NullTile THEN state
  ELSE Let(canKong(state.players[claimerIndex].hand, state.lastDiscard.definition),
           LAMBDA kongTiles :
             IF kongTiles = <<>> THEN state
             ELSE Let(Claimed(state, claimerIndex,
                        ClaimPlayers(state, claimerIndex, kongTiles,
                           [type |-> "kong", tiles |-> Append(kongTiles, state.lastDiscard)])),
                      LAMBDA claimed : KongDraw(claimed, claimerIndex)))

\* A result of canSelfKong: type is "promote", "concealed" or "null".
NoKong == [type |-> "null", meldIndex |-> 0, tile |-> NullTile, tiles |-> <<>>]

canSelfKong(player) ==
  Let({mi \in 1..Len(player.melds) :
         /\ player.melds[mi].type = "pong"
         /\ Matching(player.hand, player.melds[mi].tiles[1].definition) # <<>>},
      LAMBDA promotes :
        IF promotes # {}
        THEN [type |-> "promote", meldIndex |-> Least(promotes),
              tile |-> Matching(player.hand,
                                player.melds[Least(promotes)].tiles[1].definition)[1],
              tiles |-> <<>>]
        ELSE Let(FindIndex(player.hand, LAMBDA t :
                    Len(Matching(player.hand, t.definition)) = 4),
                 LAMBDA four :
                   IF four # 0
                   THEN [type |-> "concealed", meldIndex |-> 0, tile |-> NullTile,
                         tiles |-> Matching(player.hand, player.hand[four].definition)]
                   ELSE NoKong))

doSelfKongApplies(state, playerIndex) ==
  canSelfKong(state.players[playerIndex]).type # "null"

\* The replacement draw of doSelfKong for the hand and melds the kong leaves.
SelfKongDraw(state, playerIndex, newHand, newMelds) ==
  IF Len(state.wall) > 0
  THEN Let(PopChain(state.wall), LAMBDA c :
         LET finalIsBonus == c.currentTile.definition.type = "bonus"
         IN [state EXCEPT
               !.wall = c.wall,
               !.players[playerIndex].hand =
                   IF finalIsBonus THEN newHand ELSE sortHand(Append(newHand, c.currentTile)),
               !.players[playerIndex].melds = newMelds,
               !.players[playerIndex].revealedBonuses = @ \o c.revealedBonuses,
               !.tilesRemaining = Len(c.wall),
               !.phase = IF Len(c.wall) = 0 /\ finalIsBonus THEN "finished" ELSE @])
  ELSE [state EXCEPT
          !.players[playerIndex].hand = sortHand(newHand),
          !.players[playerIndex].melds = newMelds,
          !.tilesRemaining = Len(state.wall)]

doSelfKong(state, playerIndex) ==
  LET player == state.players[playerIndex]
  IN Let(canSelfKong(player), LAMBDA kongInfo :
       IF kongInfo.type = "null" THEN state
       ELSE IF kongInfo.type = "promote"
       THEN SelfKongDraw(state, playerIndex,
              SelectSeq(player.hand, LAMBDA t : t.id # kongInfo.tile.id),
              [player.melds EXCEPT ![kongInfo.meldIndex] =
                 [type |-> "kong", tiles |-> Append(@.tiles, kongInfo.tile)]])
       ELSE SelfKongDraw(state, playerIndex,
              SelectSeq(player.hand, LAMBDA t : t.id \notin IdsOf(kongInfo.tiles)),
              Append(player.melds, [type |-> "concealed-kong", tiles |-> kongInfo.tiles])))

(* ----------------------------------------------------------------------- *)
(* Win check (gameEngine.ts).  A Map<string, number> is a sequence of      *)
(* [key, count] entries in insertion order, which is the order `for ... of *)
(* groups` visits; the key is the definition tileKey() encodes.            *)
(* ----------------------------------------------------------------------- *)

GroupGet(groups, key) ==
  Let(FindIndex(groups, LAMBDA g : g.key = key), LAMBDA i :
    IF i = 0 THEN 0 ELSE groups[i].count)

\* copy.set(key, c - n); if (c - n === 0) copy.delete(key)
GroupTake(groups0, key, n) ==
  Let(groups0, LAMBDA groups :
    Let(FindIndex(groups, LAMBDA g : g.key = key), LAMBDA i :
      IF groups[i].count - n = 0 THEN RemoveAt(groups, i)
      ELSE [groups EXCEPT ![i].count = @ - n]))

\* map.set(key, (map.get(key) ?? 0) + 1)
GroupAdd(map, key) ==
  Let(FindIndex(map, LAMBDA g : g.key = key), LAMBDA i :
    IF i = 0 THEN Append(map, [key |-> key, count |-> 1])
    ELSE [map EXCEPT ![i].count = @ + 1])

RECURSIVE GroupInto(_, _)
GroupInto(tiles, map0) ==
  Let(map0, LAMBDA map :
    IF tiles = <<>> THEN map
    ELSE GroupInto(Tail(tiles), GroupAdd(map, Head(tiles).definition)))

groupTiles(tiles0) == Let(tiles0, LAMBDA tiles : GroupInto(tiles, <<>>))

GroupTotal(groups) == SumSeq([i \in 1..Len(groups) |-> groups[i].count])

RECURSIVE canFormSets(_)
canFormSets(groups0) ==
  Let(groups0, LAMBDA groups :
    Let(GroupTotal(groups), LAMBDA total :
      IF total = 0 THEN TRUE
      ELSE IF total % 3 # 0 THEN FALSE
      ELSE
        \* only the first entry is tried: the loop body ends in `return false`
        LET key == groups[1].key
            count == groups[1].count
            k2 == [key EXCEPT !.value = @ + 1]
            k3 == [key EXCEPT !.value = @ + 2]
        IN \/ /\ count >= 3
              /\ canFormSets(GroupTake(groups, key, 3))
           \/ /\ key.type = "suit"
              /\ key.value <= 7
              /\ GroupGet(groups, k2) > 0
              /\ GroupGet(groups, k3) > 0
              /\ canFormSets(GroupTake(GroupTake(GroupTake(groups, key, 1), k2, 1), k3, 1))))

canFormSetsAndPair(groups0) ==
  Let(groups0, LAMBDA groups :
    Let(GroupTotal(groups), LAMBDA total :
      IF total = 0 THEN TRUE
      ELSE IF total = 2 THEN \E i \in 1..Len(groups) : groups[i].count >= 2
      ELSE \E i \in 1..Len(groups) :
             /\ groups[i].count >= 2
             /\ canFormSets(GroupTake(groups, groups[i].key, 2))))

checkWin(hand, melds) ==
  LET expectedHand == 14 - Len(melds) * 3
  IN IF Len(hand) # expectedHand THEN FALSE
     ELSE canFormSetsAndPair(groupTiles(hand))

checkWinWithTile(hand, melds, tile) == checkWin(Append(hand, tile), melds)

(* ----------------------------------------------------------------------- *)
(* Singapore tai scoring and payments (gameEngine.ts)                      *)
(* ----------------------------------------------------------------------- *)

RECURSIVE Pow2(_)
Pow2(n) == IF n = 0 THEN 1 ELSE 2 * Pow2(n - 1)

Entry(cond, name, tai) == IF cond THEN <<[name |-> name, tai |-> tai]>> ELSE <<>>

IsPongLike(m) == m.type = "pong" \/ m.type = "kong"
IsAnyPong(m) == m.type = "pong" \/ m.type = "kong" \/ m.type = "concealed-kong"

\* const allTiles = [...hand, ...melds.flatMap(m => m.tiles)], as definitions
AllDefs(hand, melds) ==
  [i \in 1..Len(hand) |-> hand[i].definition]
  \o Flatten([m \in 1..Len(melds) |->
        [i \in 1..Len(melds[m].tiles) |-> melds[m].tiles[i].definition]])

\* The entries calculateTai pushes for the bonus tiles and the way of winning
BonusEntries(bonuses, isSelfDraw) ==
  LET flowers == Len(SelectSeq(bonuses, LAMBDA t :
                    t.definition.type = "bonus" /\ t.definition.kind = "flower"))
      animalValues == {bonuses[i].definition.value : i \in
                         {j \in 1..Len(bonuses) : bonuses[j].definition.type = "bonus"
                                                  /\ bonuses[j].definition.kind = "animal"}}
      animals == Len(SelectSeq(bonuses, LAMBDA t :
                    t.definition.type = "bonus" /\ t.definition.kind = "animal"))
  IN Entry(flowers > 0, "Flowers", flowers)
     \o Entry(animals > 0, "Animals", animals)
     \o Entry(flowers = 4, "All Flowers", 1)
     \o Entry(animals = 4, "All Animals", 1)
     \o Entry({1, 2} \subseteq animalValues, "Cat & Mouse", 1)
     \o Entry({3, 4} \subseteq animalValues, "Rooster & Centipede", 1)
     \o Entry(isSelfDraw, "Self-drawn", 1)
     \o Entry(Len(bonuses) = 0, "No Bonus Tiles", 1)

\* The entries for the melds: concealed hand, all pongs, dragon and wind pongs
MeldEntries(melds, seatWind, roundWind) ==
  Entry(\A m \in 1..Len(melds) : melds[m].type = "concealed-kong", "Concealed Hand", 1)
  \o Entry((\A m \in 1..Len(melds) : IsAnyPong(melds[m])) /\ Len(melds) > 0, "All Pongs", 2)
  \o Flatten([m \in 1..Len(melds) |->
        Entry(IsPongLike(melds[m]) /\ melds[m].tiles[1].definition.type = "dragon",
              "Dragon Pong", 1)])
  \o Flatten([m \in 1..Len(melds) |->
        IF IsPongLike(melds[m]) /\ melds[m].tiles[1].definition.type = "wind"
        THEN Entry(melds[m].tiles[1].definition.kind = seatWind, "Seat Wind", 1)
             \o Entry(melds[m].tiles[1].definition.kind = roundWind, "Round Wind", 1)
        ELSE <<>>])

\* The entries for the tiles of the whole hand: flushes, honors, terminals
SuitEntries(allDefs) ==
  LET suitTypes == {allDefs[i].kind : i \in {j \in 1..Len(allDefs) : allDefs[j].type = "suit"}}
      hasHonors == \E i \in 1..Len(allDefs) : allDefs[i].type \in {"wind", "dragon"}
  IN Entry(Cardinality(suitTypes) = 1 /\ ~hasHonors, "Full Flush", 4)
     \o Entry(Cardinality(suitTypes) = 1 /\ hasHonors, "Half Flush", 2)
     \o Entry(\A i \in 1..Len(allDefs) : allDefs[i].type \in {"wind", "dragon"},
              "All Honors", 10)
     \o Entry(\A i \in 1..Len(allDefs) :
                 allDefs[i].type = "suit" /\ allDefs[i].value \in {1, 9},
              "All Terminals", 10)

\* The entries for the dragon and wind sets
HonorEntries(hand, melds) ==
  LET PongsOf(type) == Cardinality({m \in 1..Len(melds) :
          IsAnyPong(melds[m]) /\ melds[m].tiles[1].definition.type = type})
      PairInHand(type) == \E i \in 1..Len(hand) :
          /\ hand[i].definition.type = type
          /\ Len(Matching(hand, hand[i].definition)) >= 2
  IN Entry(PongsOf("dragon") = 2 /\ PairInHand("dragon"), "Small Three Dragons", 4)
     \o Entry(PongsOf("dragon") = 3, "Big Three Dragons", 8)
     \o Entry(PongsOf("wind") = 3 /\ PairInHand("wind"), "Small Four Winds", 8)
     \o Entry(PongsOf("wind") = 4, "Big Four Winds", 10)

\* The breakdown list of calculateTai, in the order the source pushes it.  The
\* names that interpolate a count or a tile name keep their fixed part.
TaiBreakdown(player, isSelfDraw, roundWind) ==
  BonusEntries(player.revealedBonuses, isSelfDraw)
  \o MeldEntries(player.melds, player.seatWind, roundWind)
  \o Let(AllDefs(player.hand, player.melds), LAMBDA allDefs : SuitEntries(allDefs))
  \o HonorEntries(player.hand, player.melds)

Min(a, b) == IF a < b THEN a ELSE b
Max(a, b) == IF a > b THEN a ELSE b

\* calculateTai without the cap of 10 tai
calculateTaiUncapped(player0, isSelfDraw, roundWind) ==
  Let(player0, LAMBDA player :
    Let(TaiBreakdown(player, isSelfDraw, roundWind), LAMBDA breakdown :
      Let(SumSeq([i \in 1..Len(breakdown) |-> breakdown[i].tai]), LAMBDA tai :
        Let(Max(tai, 1), LAMBDA finalTai :
          [tai |-> finalTai, breakdown |-> breakdown, basePoints |-> Pow2(finalTai)]))))

calculateTai(player0, isSelfDraw, roundWind) ==
  Let(player0, LAMBDA player :
    Let(TaiBreakdown(player, isSelfDraw, roundWind), LAMBDA breakdown :
      Let(SumSeq([i \in 1..Len(breakdown) |-> breakdown[i].tai]), LAMBDA tai :
        Let(Min(Max(tai, 1), 10), LAMBDA finalTai :
          [tai |-> finalTai, breakdown |-> breakdown, basePoints |-> Pow2(finalTai)]))))

\* null TaiResult / PaymentResult of a drawn round
NullTai == [tai |-> 0, breakdown |-> <<>>, basePoints |-> 0]
NullPayment == [payments |-> <<>>, winnerReceives |-> 0]

\* calculatePayments adding basePoints to the total for every loser, the
\* shooter included
calculatePaymentsFlatTotal(winnerIndex, shooterIndex, basePoints) ==
  LET losers == SelectSeq(<<0, 1, 2, 3>>, LAMBDA i : i # winnerIndex)
      Amount(i) == IF i = shooterIndex THEN basePoints * 2 ELSE basePoints
      total == basePoints * Len(losers)
  IN [payments |-> [k \in 1..Len(losers) |->
                       [playerIndex |-> losers[k], amount |-> 0 - Amount(losers[k])]]
                   \o <<[playerIndex |-> winnerIndex, amount |-> total]>>,
      winnerReceives |-> total]

calculatePayments(winnerIndex, shooterIndex, basePoints) ==
  LET losers == SelectSeq(<<0, 1, 2, 3>>, LAMBDA i : i # winnerIndex)
      Amount(i) == IF i = shooterIndex THEN basePoints * 2 ELSE basePoints
      total == SumSeq([k \in 1..Len(losers) |-> Amount(losers[k])])
  IN [payments |-> [k \in 1..Len(losers) |->
                       [playerIndex |-> losers[k], amount |-> 0 - Amount(losers[k])]]
                   \o <<[playerIndex |-> winnerIndex, amount |-> total]>>,
      winnerReceives |-> total]

\* The minimum-tai rule the room applies before it accepts a win ("accept only
\* if tai >= 1"); its source is not part of the engine file at hand.
MinTai == 1

canWinWithSufficientTai(player, isSelfDraw, roundWind) ==
  [allowed |-> calculateTai(player, isSelfDraw, roundWind).tai >= MinTai]

(* ----------------------------------------------------------------------- *)
(* Bot policy (gameEngine.ts).  A Math.random() comparison is a boolean    *)
(* parameter the caller draws.                                             *)
(* ----------------------------------------------------------------------- *)

Abs(x) == IF x < 0 THEN 0 - x ELSE x

isolationScore(tile, hand) ==
  LET def == tile.definition
      matchCount == Len(SelectSeq(hand, LAMBDA t :
                       t.id # tile.id /\ tilesMatch(t.definition, def)))
      adjacent == Len(SelectSeq(hand, LAMBDA t :
                       /\ t.id # tile.id
                       /\ t.definition.type = "suit"
                       /\ t.definition.kind = def.kind
                       /\ Abs(t.definition.value - def.value) <= 2))
  IN IF def.type = "bonus" THEN 1000
     ELSE (0 - matchCount * 30)
          + (IF def.type = "suit"
             THEN (0 - adjacent * 15) + (IF def.value \in {1, 9} THEN 5 ELSE 0)
             ELSE 0)
          + (IF def.type \in {"wind", "dragon"} /\ matchCount = 0 THEN 10 ELSE 0)

\* '' (no tile) is NullTile.id; the first tile of the best score is kept
aiChooseDiscard(player) ==
  LET hand == player.hand
  IN IF Len(hand) = 0 THEN NullTile.id
     ELSE Let([i \in 1..Len(hand) |-> isolationScore(hand[i], hand)], LAMBDA score :
            hand[Least({i \in 1..Len(hand) :
                          \A j \in 1..Len(hand) : score[j] <= score[i]})].id)

aiShouldPong(player, discard, rnd) ==
  IF canPong(player.hand, discard.definition) = <<>> THEN FALSE
  ELSE IF discard.definition.type = "dragon" THEN TRUE
  ELSE IF discard.definition.type = "wind" /\ discard.definition.kind = player.seatWind
  THEN TRUE
  ELSE rnd

aiShouldKong(player, discard) == canKong(player.hand, discard.definition) # <<>>

aiShouldChi(player, discard, discarderIndex, claimerIndex, rnd) ==
  Let(canChi(player.hand, discard.definition, claimerIndex, discarderIndex),
      LAMBDA chiTiles :
        IF chiTiles = <<>> THEN <<>>
        ELSE IF discard.definition.type # "suit" THEN <<>>
        ELSE IF rnd THEN chiTiles ELSE <<>>)

aiShouldSelfKong(player) == canSelfKong(player).type # "null"

(* ----------------------------------------------------------------------- *)
(* The room (party/server.ts, class MahjongRoom)                           *)
(* ----------------------------------------------------------------------- *)

VARIABLES
  status,             \* 'waiting' | 'starting' | 'in-game'
  lobbyPlayers,       \* sequence of [connectionId, isHost, reconnectToken]
  gameState,          \* GameState, NullGame for null
  aiPlayerIndices,    \* Set<number>
  humanConnections,   \* Map playerIndex -> connectionId (NoConn: no entry)
  connectionToPlayer, \* Map connectionId -> playerIndex (NullIdx: no entry)
  reconnectTokens,    \* Map token -> playerIndex (NullIdx: no entry)
  claimResponses,     \* Map playerIndex -> response | null (NoResp: no entry)
  claimTimer,         \* the field this.claimTimer and the timer it refers to
  leakedClaimTimers,  \* pending claim timers no field refers to, by captured discarder
  aiTimer,            \* the single pending bot callback
  disconnectTimers,   \* seats with an entry in the Map of grace timers
  leakedGraceTimers,  \* pending grace timers whose Map entry was overwritten or deleted
  connections,        \* connection id -> "new" | "open" | "closed"
  roundOver,          \* 'round-over' messages broadcast since the deal
  claimWindow,        \* the 'claim-window' messages of the window last opened
  resolution,         \* what resolveClaimWindow did in the step just taken
  deals,              \* hands dealt so far
  upsets,             \* disconnections in a game, and messages with an effect
                      \* that the protocol did not call for, so far
  crashed             \* the handler just run ended in an uncaught TypeError

vars == <<status, lobbyPlayers, gameState, aiPlayerIndices, humanConnections,
          connectionToPlayer, reconnectTokens, claimResponses, claimTimer,
          leakedClaimTimers, aiTimer, disconnectTimers, leakedGraceTimers,
          connections, roundOver, claimWindow, resolution, deals, upsets,
          crashed>>

\* Most connection ids the room ever sees open at once.
MaxConns == 2
ConnIds == 1..MaxConns

\* The connections the room ever sees; those beyond MaxConns only come and go
MaxClients == 3
ClientIds == 1..MaxClients
NoConn == 0

\* The token a client connects with: NoToken for an absent parameter, else the
\* uuid the room gave the seat of connection c, written TokenOf(c).
NoToken == 0
TokenOf(c) == 100 + c
Tokens == {TokenOf(c) : c \in ClientIds}

\* claimResponses values: no entry, null, or { action, chiIndex? }
NoResp == [has |-> FALSE, action |-> "none", chiIndex |-> -1]
NullResp == [has |-> TRUE, action |-> "null", chiIndex |-> -1]
Resp(a) == [has |-> TRUE, action |-> a, chiIndex |-> -1]
ChiResp(ci) == [has |-> TRUE, action |-> "chi", chiIndex |-> ci]

\* aiTimer values: the closure scheduleAi() was given
NoTimer == [fn |-> "none", idx |-> NullIdx, selfDraw |-> FALSE]
TurnTimer == [fn |-> "runAiTurn", idx |-> NullIdx, selfDraw |-> FALSE]
DiscardTimer(i) == [fn |-> "runAiDiscard", idx |-> i, selfDraw |-> FALSE]
EndRoundTimer(i, sd) == [fn |-> "endRound", idx |-> i, selfDraw |-> sd]

\* claimTimer: `set` is this.claimTimer !== null, `pending` tells whether the
\* timeout it refers to is still to fire, `discarder` is the index it captured.
NoClaimTimer == [set |-> FALSE, pending |-> FALSE, discarder |-> NullIdx]

\* claimWindow: whether a window waits for humans, the discarder it was opened
\* for and the seats that were offered a claim.
NoClaimWindow == [open |-> FALSE, discarder |-> NullIdx, offered |-> {}]

\* resolution: the responses resolveClaimWindow read, the discard and discarder
\* it read, the claim that took effect and for whom, whether the tile was
\* still held by its owner (a promoted kong being robbed), and whether the
\* claim timer's callback made the call.
NoResolution ==
  [effect |-> "none", who |-> NullIdx, responses |-> [i \in Seats |-> NoResp],
   discarder |-> NullIdx, discard |-> NullTile, rob |-> FALSE, timeout |-> FALSE]

\* The fields of `this` a handler reads and writes, as one record.
This ==
  [status |-> status, lobbyPlayers |-> lobbyPlayers, gameState |-> gameState,
   aiPlayerIndices |-> aiPlayerIndices, humanConnections |-> humanConnections,
   connectionToPlayer |-> connectionToPlayer, reconnectTokens |-> reconnectTokens,
   claimResponses |-> claimResponses, claimTimer |-> claimTimer,
   leakedClaimTimers |-> leakedClaimTimers, aiTimer |-> aiTimer,
   disconnectTimers |-> disconnectTimers, leakedGraceTimers |-> leakedGraceTimers,
   roundOver |-> roundOver, claimWindow |-> claimWindow, resolution |-> resolution,
   crashed |-> crashed]

\* The handler returns: the room is left as r0.
Commit(r0) ==
  \E r \in {r0} :
    /\ status' = r.status
    /\ lobbyPlayers' = r.lobbyPlayers
    /\ gameState' = r.gameState
    /\ aiPlayerIndices' = r.aiPlayerIndices
    /\ humanConnections' = r.humanConnections
    /\ connectionToPlayer' = r.connectionToPlayer
    /\ reconnectTokens' = r.reconnectTokens
    /\ claimResponses' = r.claimResponses
    /\ claimTimer' = r.claimTimer
    /\ leakedClaimTimers' = r.leakedClaimTimers
    /\ aiTimer' = r.aiTimer
    /\ disconnectTimers' = r.disconnectTimers
    /\ leakedGraceTimers' = r.leakedGraceTimers
    /\ roundOver' = r.roundOver
    /\ claimWindow' = r.claimWindow
    /\ resolution' = r.resolution
    /\ crashed' = r.crashed

\* An uncaught TypeError: the handler stops, what it wrote so far stays.
Throw(r) == [r EXCEPT !.crashed = TRUE]

(* ---------------- round end ---------------- *)

\* scores after the payments of paymentResult are applied
Paid(players, payments) ==
  [i \in Seats |->
     [players[i] EXCEPT !.score =
        @ + Let(FindIndex(payments, LAMBDA pp : pp.playerIndex = i), LAMBDA k :
              IF k = 0 THEN 0 ELSE payments[k].amount)]]

endRound(r0, winnerIdx, isSelfDraw) ==
  Let(r0, LAMBDA r :
    LET gs == r.gameState
    IN IF winnerIdx # NullIdx
       THEN Let(calculateTai(gs.players[winnerIdx], isSelfDraw, gs.roundWind),
                LAMBDA taiResult :
            Let(calculatePayments(winnerIdx,
                                  IF isSelfDraw THEN NullIdx ELSE gs.lastDiscardPlayer,
                                  taiResult.basePoints),
                LAMBDA paymentResult :
                  [r EXCEPT
                     !.gameState = [gs EXCEPT
                        !.players = Paid(gs.players, paymentResult.payments),
                        !.phase = "finished"],
                     !.roundOver = Append(@, [winnerIndex |-> winnerIdx,
                                              taiResult |-> taiResult,
                                              paymentResult |-> paymentResult])]))
       ELSE [r EXCEPT
               !.gameState = [gs EXCEPT !.phase = "finished"],
               !.roundOver = Append(@, [winnerIndex |-> NullIdx, taiResult |-> NullTai,
                                        paymentResult |-> NullPayment])])

(* ---------------- turn progression ---------------- *)

scheduleAi(r, fn) == [r EXCEPT !.aiTimer = fn]

advanceToNextPlayer(r0) ==
  Let(r0, LAMBDA r :
    Let(advanceTurn(r.gameState), LAMBDA after :
      IF after.currentPlayerIndex \in r.aiPlayerIndices
      THEN scheduleAi([r EXCEPT !.gameState = after], TurnTimer)
      ELSE [r EXCEPT !.gameState = after]))

\* this.gameState = result, then
\* `if (this.aiPlayerIndices.has(i)) scheduleAi(runAiDiscard(i)) else notify`
ThenDiscards(r, result, i) ==
  [r EXCEPT !.gameState = result,
            !.aiTimer = IF i \in r.aiPlayerIndices THEN DiscardTimer(i) ELSE @]

(* ---------------- claim window ---------------- *)

\* The hand-plus-discard player the win checks of a claim window score.
TestPlayer(player, discard) == [player EXCEPT !.hand = Append(@, discard)]

\* The first seat of a `for (let i = 0; i < 4; i++)` loop that is in S
FirstSeat(S) == IF S = {} THEN NullIdx ELSE Least(S)

\* What resolveClaimWindow leaves once the claim `effect` of seat `who` is
\* carried out with result `out`; r is the room it read.
Resolved(r, effect, who, out) ==
  LET gs == r.gameState
      discarderIdx == gs.lastDiscardPlayer
      discard == gs.lastDiscard
  IN [out EXCEPT
        !.claimWindow.open = IF effect = "throw" THEN @ ELSE FALSE,
        !.resolution =
           [effect |-> effect, who |-> who, responses |-> r.claimResponses,
            discarder |-> discarderIdx, discard |-> discard,
            rob |-> /\ discard # NullTile
                    /\ discarderIdx # NullIdx
                    /\ \/ discard.id \in IdsOf(gs.players[discarderIdx].hand)
                       \/ \E m \in 1..Len(gs.players[discarderIdx].melds) :
                             discard.id \in IdsOf(gs.players[discarderIdx].melds[m].tiles),
            timeout |-> FALSE]]

\* The `// Execute win` block: the winner takes the discard
WinExecuted(gs, winner) ==
  [gs EXCEPT
     !.players = [pi \in Seats |->
        IF pi = winner
        THEN [gs.players[pi] EXCEPT !.hand = Append(@, gs.lastDiscard)]
        ELSE IF pi = gs.lastDiscardPlayer
        THEN [gs.players[pi] EXCEPT
                !.discards = SelectSeq(@, LAMBDA t : t.id # gs.lastDiscard.id)]
        ELSE gs.players[pi]],
     !.lastDiscard = NullTile,
     !.lastDiscardPlayer = NullIdx]

\* The chi block of resolveClaimWindow and what follows it
ResolveChi(r) ==
  LET gs == r.gameState
      discarderIdx == gs.lastDiscardPlayer
      discard == gs.lastDiscard
      chiPlayer == NextAfter(discarderIdx)
      chiResp == r.claimResponses[chiPlayer]
      idx == IF chiResp.chiIndex = -1 THEN 0 ELSE chiResp.chiIndex
  IN IF chiPlayer # discarderIdx /\ chiResp.action = "chi"
     THEN IF discard = NullTile THEN Resolved(r, "throw", NullIdx, Throw(r))
          ELSE Let(canAllChi(gs.players[chiPlayer].hand, discard.definition,
                             chiPlayer, discarderIdx),
                   LAMBDA allOptions :
                     IF Len(allOptions) = 0
                     THEN Resolved(r, "pass", NullIdx, advanceToNextPlayer(r))
                     ELSE Resolved(r, "chi", chiPlayer,
                            ThenDiscards(r,
                               doChi(gs, chiPlayer,
                                     IF idx + 1 <= Len(allOptions) THEN allOptions[idx + 1]
                                     ELSE allOptions[1]),
                               chiPlayer)))
     ELSE Resolved(r, "pass", NullIdx, advanceToNextPlayer(r))

\* `resp?.action === a` for a seat the loops do not skip
HasClaim(r, i, a) ==
  i # r.gameState.lastDiscardPlayer /\ r.claimResponses[i].action = a

\* The kong loop: the first seat that answered kong and whose kong applies
KongClaimer(r) ==
  FirstSeat({i \in Seats : HasClaim(r, i, "kong") /\ doKongApplies(r.gameState, i)})

\* A pong loop that gives way to a chi answer of the seat after the discarder
PongClaimerAfterChi(r) ==
  LET gs == r.gameState
      chiPlayer == NextAfter(gs.lastDiscardPlayer)
  IN IF /\ gs.lastDiscard # NullTile
        /\ HasClaim(r, chiPlayer, "chi")
        /\ canAllChi(gs.players[chiPlayer].hand, gs.lastDiscard.definition,
                     chiPlayer, gs.lastDiscardPlayer) # <<>>
     THEN NullIdx
     ELSE FirstSeat({i \in Seats : HasClaim(r, i, "pong") /\ doPongApplies(r.gameState, i)})

\* The pong loop: the first seat that answered pong and whose pong applies
PongClaimer(r) ==
  FirstSeat({i \in Seats : HasClaim(r, i, "pong") /\ doPongApplies(r.gameState, i)})

\* A win loop that runs after the kong and pong loops instead of before them
WinClaimerAfterMelds(r) ==
  IF KongClaimer(r) # NullIdx \/ PongClaimer(r) # NullIdx THEN NullIdx
  ELSE FirstSeat({i \in Seats :
         /\ HasClaim(r, i, "win")
         /\ canWinWithSufficientTai(TestPlayer(r.gameState.players[i], r.gameState.lastDiscard),
                                    FALSE, r.gameState.roundWind).allowed})

\* The win loop: the first seat that answered win and has sufficient tai
WinClaimer(r) ==
  FirstSeat({i \in Seats :
     /\ HasClaim(r, i, "win")
     /\ canWinWithSufficientTai(TestPlayer(r.gameState.players[i], r.gameState.lastDiscard),
                                FALSE, r.gameState.roundWind).allowed})

resolveClaimWindow(r0) ==
  Let(r0, LAMBDA r :
    LET gs == r.gameState
    IN \* the score of a null discard has no definition to read
       IF gs.lastDiscard = NullTile /\ \E i \in Seats : HasClaim(r, i, "win")
       THEN Resolved(r, "throw", NullIdx, Throw(r))
       ELSE
       Let(WinClaimer(r), LAMBDA winner :
       Let(IF winner # NullIdx THEN NullIdx ELSE KongClaimer(r), LAMBDA konger :
       Let(IF konger # NullIdx THEN doKong(gs, konger) ELSE gs, LAMBDA kongResult :
       Let(IF winner # NullIdx \/ konger # NullIdx THEN NullIdx ELSE PongClaimer(r),
           LAMBDA ponger :
         IF winner # NullIdx \/ konger # NullIdx
         THEN LET won == winner # NullIdx
                         \/ checkWin(kongResult.players[konger].hand,
                                     kongResult.players[konger].melds)
                  who == IF winner # NullIdx THEN winner ELSE konger
              IN Resolved(r, IF winner # NullIdx THEN "win" ELSE "kong", who,
                   IF won
                   THEN endRound([r EXCEPT !.gameState =
                                    IF winner # NullIdx THEN WinExecuted(gs, winner)
                                    ELSE kongResult],
                                 who, winner = NullIdx)
                   ELSE ThenDiscards(r, kongResult, konger))
         ELSE IF ponger # NullIdx
         THEN Resolved(r, "pong", ponger, ThenDiscards(r, doPong(gs, ponger), ponger))
         ELSE ResolveChi(r))))))

\* clearTimeout(this.claimTimer); this.claimTimer = null
ClearClaimTimer(r) ==
  IF r.claimTimer.set THEN [r EXCEPT !.claimTimer = NoClaimTimer] ELSE r

tryResolveClaimWindow(r0) ==
  Let(r0, LAMBDA r :
    IF \E i \in Seats : i # r.gameState.lastDiscardPlayer /\ ~r.claimResponses[i].has
    THEN r
    ELSE resolveClaimWindow(ClearClaimTimer(r)))

\* rnd.pong and rnd.chi are the outcomes of `Math.random() < 0.3` and
\* `Math.random() < 0.4`.
resolveAiClaim(aiIdx, gs, discard, discarderIdx, rnd) ==
  LET player == gs.players[aiIdx]
  IN IF /\ checkWinWithTile(player.hand, player.melds, discard)
        /\ canWinWithSufficientTai(TestPlayer(player, discard), FALSE, gs.roundWind).allowed
     THEN Resp("win")
     ELSE IF aiShouldKong(player, discard) THEN Resp("kong")
     ELSE IF aiShouldPong(player, discard, rnd.pong) THEN Resp("pong")
     ELSE IF aiShouldChi(player, discard, discarderIdx, aiIdx, rnd.chi) # <<>>
     THEN Resp("chi")
     ELSE NullResp

\* What openClaimWindow finds for player i: the claims the discard allows.
CanClaim(gs, i, discarderIdx) ==
  LET player == gs.players[i]
      discard == gs.lastDiscard
  IN \/ checkWinWithTile(player.hand, player.melds, discard)
     \/ canKong(player.hand, discard.definition) # <<>>
     \/ canPong(player.hand, discard.definition) # <<>>
     \/ canChi(player.hand, discard.definition, i, discarderIdx) # <<>>

\* setTimeout overwrites the field this.claimTimer; a timer the field referred
\* to stays pending.
SetClaimTimer(r, discarderIdx) ==
  [r EXCEPT
     !.claimTimer = [set |-> TRUE, pending |-> TRUE, discarder |-> discarderIdx],
     !.leakedClaimTimers =
        IF r.claimTimer.set /\ r.claimTimer.pending
        THEN [@ EXCEPT ![r.claimTimer.discarder] = @ + 1]
        ELSE @]

openClaimWindow(r0, discarderIdx, rnd) ==
  Let(r0, LAMBDA r :
    LET gs == r.gameState
    IN IF gs.lastDiscard = NullTile THEN advanceToNextPlayer(r)
       ELSE
       Let({i \in Seats \ {discarderIdx} : CanClaim(gs, i, discarderIdx)}, LAMBDA can :
       Let([i \in Seats |->
              IF i = discarderIdx THEN NoResp
              ELSE IF i \notin can THEN NullResp
              ELSE IF i \in r.aiPlayerIndices
              THEN resolveAiClaim(i, gs, gs.lastDiscard, discarderIdx, rnd)
              ELSE NoResp],
           LAMBDA responses :
           Let([r EXCEPT
                  !.claimResponses = responses,
                  !.claimWindow = [open |-> TRUE, discarder |-> discarderIdx,
                                   offered |-> can \ r.aiPlayerIndices]],
               LAMBDA r1 :
                 \* anyHumanCanClaim
                 IF can \subseteq r.aiPlayerIndices
                 THEN resolveClaimWindow(r1)
                 ELSE SetClaimTimer(r1, discarderIdx)))))

\* A timeout callback that resolves only a window every seat has answered
claimTimeoutWaits(r0, discarderIdx) ==
  [tryResolveClaimWindow(r0) EXCEPT !.resolution.timeout = TRUE]

\* The callback of the claim timer, with the discarder index it captured.
claimTimeout(r0, discarderIdx) ==
  Let(r0, LAMBDA r :
    [resolveClaimWindow(
       [r EXCEPT !.claimResponses = [i \in Seats |->
           IF ~r.claimResponses[i].has /\ i # discarderIdx THEN NullResp
           ELSE r.claimResponses[i]]])
     EXCEPT !.resolution.timeout = TRUE])

(* ---------------- action handlers ---------------- *)

\* A draw handler that leaves an empty wall to drawTile
handleDrawBlind(r, playerIdx) ==
  LET gs == r.gameState
  IN IF gs.currentPlayerIndex # playerIdx THEN r
     ELSE [r EXCEPT !.gameState = drawTile(gs, playerIdx)]

handleDraw(r, playerIdx) ==
  LET gs == r.gameState
  IN IF gs.currentPlayerIndex # playerIdx THEN r
     ELSE IF Len(gs.wall) = 0 THEN endRound(r, NullIdx, FALSE)
     ELSE [r EXCEPT !.gameState = drawTile(gs, playerIdx)]

handleDiscard(r, playerIdx, tileId, rnd) ==
  LET gs == r.gameState
  IN IF gs.currentPlayerIndex # playerIdx THEN r
     ELSE openClaimWindow([r EXCEPT !.gameState = discardTile(gs, playerIdx, tileId)],
                          playerIdx, rnd)

\* chiIndex -1 is `undefined`
handleChi(r, playerIdx, chiIndex) ==
  LET gs == r.gameState
      idx == IF chiIndex = -1 THEN 0 ELSE chiIndex
  IN IF gs.lastDiscard = NullTile THEN r
     ELSE Let(Len(canAllChi(gs.players[playerIdx].hand, gs.lastDiscard.definition,
                            playerIdx, gs.lastDiscardPlayer)),
              LAMBDA options :
                IF options = 0 THEN r
                ELSE IF options > 1 /\ chiIndex = -1 THEN r
                ELSE IF idx + 1 > options THEN r
                ELSE tryResolveClaimWindow(
                       [r EXCEPT !.claimResponses[playerIdx] = ChiResp(idx)]))

handlePong(r, playerIdx) ==
  tryResolveClaimWindow([r EXCEPT !.claimResponses[playerIdx] = Resp("pong")])

\* Some other player completes a hand with the tile of a promoted kong.
CanRob(state, kongIdx, tile) ==
  \E i \in Seats :
     /\ i # kongIdx
     /\ checkWinWithTile(state.players[i].hand, state.players[i].melds, tile)

\* The self-kong branch of handleKong (during discard phase)
SelfKong(r, playerIdx, rnd) ==
  LET gs == r.gameState
  IN Let(canSelfKong(gs.players[playerIdx]), LAMBDA kongInfo :
       IF kongInfo.type = "null" THEN r
       ELSE Let(doSelfKong(gs, playerIdx), LAMBDA result :
              IF kongInfo.type = "promote" /\ CanRob(result, playerIdx, kongInfo.tile)
              THEN openClaimWindow(
                     [r EXCEPT !.gameState = [result EXCEPT
                         !.lastDiscard = kongInfo.tile,
                         !.lastDiscardPlayer = playerIdx]],
                     playerIdx, rnd)
              ELSE IF checkWin(result.players[playerIdx].hand,
                               result.players[playerIdx].melds)
              THEN IF playerIdx \in r.aiPlayerIndices
                   THEN endRound([r EXCEPT !.gameState = result], playerIdx, TRUE)
                   ELSE [r EXCEPT !.gameState = result]
              ELSE ThenDiscards(r, result, playerIdx)))

handleKong(r, playerIdx, rnd) ==
  IF r.gameState.currentPlayerIndex = playerIdx /\ r.gameState.lastDiscard = NullTile
  THEN SelfKong(r, playerIdx, rnd)
  ELSE \* exposed kong (from claim window)
    tryResolveClaimWindow([r EXCEPT !.claimResponses[playerIdx] = Resp("kong")])

handleWin(r, playerIdx) ==
  LET gs == r.gameState
      p == gs.players[playerIdx]
  IN IF /\ gs.currentPlayerIndex = playerIdx
        /\ gs.lastDiscard = NullTile
        /\ checkWin(p.hand, p.melds)
     THEN IF ~canWinWithSufficientTai(p, TRUE, gs.roundWind).allowed THEN r
          ELSE endRound(r, playerIdx, TRUE)
     ELSE tryResolveClaimWindow([r EXCEPT !.claimResponses[playerIdx] = Resp("win")])

handlePass(r, playerIdx) ==
  tryResolveClaimWindow([r EXCEPT !.claimResponses[playerIdx] = NullResp])

\* action is the ActionType of the message, tileId and chiIndex its optional
\* fields (NullTile.id and -1 when absent).
handleAction(r0, sender, action, tileId, chiIndex, rnd) ==
  Let(r0, LAMBDA r :
    LET playerIdx == r.connectionToPlayer[sender]
    IN IF r.gameState = NullGame THEN r
       ELSE IF playerIdx = NullIdx THEN r
       ELSE CASE action = "draw" -> handleDraw(r, playerIdx)
              [] action = "discard" ->
                   IF tileId # NullTile.id THEN handleDiscard(r, playerIdx, tileId, rnd)
                   ELSE r
              [] action = "chi" -> handleChi(r, playerIdx, chiIndex)
              [] action = "pong" -> handlePong(r, playerIdx)
              [] action = "kong" -> handleKong(r, playerIdx, rnd)
              [] action = "win" -> handleWin(r, playerIdx)
              [] action = "pass" -> handlePass(r, playerIdx)
              [] OTHER -> r)

(* ---------------- bot turns ---------------- *)

runAiDiscard(r0, idx, rnd) ==
  Let(r0, LAMBDA r :
    Let(aiChooseDiscard(r.gameState.players[idx]), LAMBDA discardId :
      IF discardId = NullTile.id THEN advanceToNextPlayer(r)
      ELSE openClaimWindow([r EXCEPT !.gameState = discardTile(r.gameState, idx, discardId)],
                           idx, rnd)))

\* `// Check self-kong` and after: the bot idx has drawn, afterDraw is the state
AiSelfKong(r, afterDraw, idx, rnd) ==
  LET player == afterDraw.players[idx]
  IN Let(canSelfKong(player), LAMBDA kongInfo :
     \* the robbers the loop stops at: a human, or a bot whose win is allowed
     Let(IF kongInfo.type # "promote" THEN {}
         ELSE {j \in Seats \ {idx} :
                 /\ checkWinWithTile(afterDraw.players[j].hand, afterDraw.players[j].melds,
                                     kongInfo.tile)
                 /\ \/ j \notin r.aiPlayerIndices
                    \/ canWinWithSufficientTai(
                          TestPlayer(afterDraw.players[j], kongInfo.tile),
                          FALSE, afterDraw.roundWind).allowed},
         LAMBDA robbers :
           IF kongInfo.type = "null"
           THEN scheduleAi([r EXCEPT !.gameState = afterDraw], DiscardTimer(idx))
           ELSE IF robbers # {}
           THEN IF Least(robbers) \in r.aiPlayerIndices
                THEN scheduleAi(
                       [r EXCEPT !.gameState = [afterDraw EXCEPT
                           !.players[Least(robbers)].hand = Append(@, kongInfo.tile)]],
                       EndRoundTimer(Least(robbers), FALSE))
                ELSE openClaimWindow(
                       [r EXCEPT !.gameState = [afterDraw EXCEPT
                           !.lastDiscard = kongInfo.tile,
                           !.lastDiscardPlayer = idx]],
                       idx, rnd)
           ELSE Let(doSelfKong(afterDraw, idx), LAMBDA afterKong :
                  LET pAfterKong == afterKong.players[idx]
                  IN IF /\ checkWin(pAfterKong.hand, pAfterKong.melds)
                        /\ canWinWithSufficientTai(pAfterKong, TRUE,
                                                   afterKong.roundWind).allowed
                     THEN scheduleAi([r EXCEPT !.gameState = afterKong],
                                     EndRoundTimer(idx, TRUE))
                     ELSE scheduleAi([r EXCEPT !.gameState = afterKong],
                                     DiscardTimer(idx)))))

runAiTurn(r0, rnd) ==
  Let(r0, LAMBDA r :
    LET gs == r.gameState
        idx == gs.currentPlayerIndex
    IN IF idx \notin r.aiPlayerIndices THEN r
       ELSE IF Len(gs.wall) = 0 THEN endRound(r, NullIdx, FALSE)
       ELSE Let(drawTile(gs, idx), LAMBDA afterDraw :
              LET player == afterDraw.players[idx]
              IN IF /\ checkWin(player.hand, player.melds)
                    /\ canWinWithSufficientTai(player, TRUE, afterDraw.roundWind).allowed
                 THEN scheduleAi([r EXCEPT !.gameState = afterDraw],
                                 EndRoundTimer(idx, TRUE))
                 ELSE AiSelfKong(r, afterDraw, idx, rnd)))

\* The closure the bot timer holds, run when it fires.
runAiTimer(r, fn, rnd) ==
  CASE fn.fn = "runAiTurn" -> runAiTurn(r, rnd)
    [] fn.fn = "runAiDiscard" -> runAiDiscard(r, fn.idx, rnd)
    [] fn.fn = "endRound" -> endRound(r, fn.idx, fn.selfDraw)
    [] OTHER -> r

(* ---------------- dealing ---------------- *)

\* makeTile: the k-th tile made (k from 0) has id `t${k}` and definition defs[k]
TileAt(defs, k) == [id |-> k, definition |-> defs[k + 1]]

\* One `for (t = hand.length - 1; t >= 0; t--)` pass of the bonus replacement
\* (t is 1-based here): a bonus tile is spliced out and a replacement, if the
\* wall has one, is popped from its tail and pushed onto the hand.
RECURSIVE ReplacePass(_, _)
ReplacePass(d0, t) ==
  Let(d0, LAMBDA d :
    IF t = 0 THEN d
    ELSE IF d.hand[t].definition.type = "bonus"
    THEN IF Len(d.wall) > 0
         THEN ReplacePass([hand |-> Append(RemoveAt(d.hand, t), d.wall[Len(d.wall)]),
                           wall |-> SubSeq(d.wall, 1, Len(d.wall) - 1),
                           bonuses |-> Append(d.bonuses, d.hand[t]),
                           changed |-> TRUE], t - 1)
         ELSE ReplacePass([d EXCEPT !.hand = RemoveAt(d.hand, t),
                                    !.bonuses = Append(@, d.hand[t])], t - 1)
    ELSE ReplacePass(d, t - 1))

\* `while (changed)` for one player, whose bonuses so far are `bonuses`
RECURSIVE ReplaceBonuses(_, _, _)
ReplaceBonuses(hand, wall, bonuses) ==
  Let(ReplacePass([hand |-> hand, wall |-> wall, bonuses |-> bonuses, changed |-> FALSE],
                  Len(hand)),
      LAMBDA d : IF d.changed THEN ReplaceBonuses(d.hand, d.wall, d.bonuses) ELSE d)

\* The bonus replacement of players p..3 in turn; dealt holds the hands and the
\* wall so far
RECURSIVE ReplaceFrom(_, _)
ReplaceFrom(dealt0, p) ==
  Let(dealt0, LAMBDA dealt :
    IF p > 3 THEN dealt
    ELSE Let(ReplaceBonuses(dealt.hands[p], dealt.wall, <<>>), LAMBDA d :
           ReplaceFrom([hands |-> [dealt.hands EXCEPT ![p] = sortHand(d.hand)],
                        bonuses |-> [dealt.bonuses EXCEPT ![p] = d.bonuses],
                        wall |-> d.wall], p + 1)))

\* A deal that hands the 14th tile to seat 0 whoever sits East
DealToSeatZero(defs, eastIdx) ==
  ReplaceFrom(
    [hands |-> [p \in Seats |->
                  [t \in 1..13 |-> TileAt(defs, 13 * p + t - 1)]
                  \o (IF p = 0 THEN <<TileAt(defs, 52)>> ELSE <<>>)],
     bonuses |-> [p \in Seats |-> <<>>],
     wall |-> [k \in 1..(Len(defs) - 53) |-> TileAt(defs, 52 + k)]], 0)

\* The deal createGameState and handleNextRound both spell out: 13 tiles each,
\* a 14th for East, the rest is the wall, then the bonus tiles are replaced
\* player by player and the hands sorted.
Deal(defs, eastIdx) ==
  ReplaceFrom(
    [hands |-> [p \in Seats |->
                  [t \in 1..13 |-> TileAt(defs, 13 * p + t - 1)]
                  \o (IF p = eastIdx THEN <<TileAt(defs, 52)>> ELSE <<>>)],
     bonuses |-> [p \in Seats |-> <<>>],
     wall |-> [k \in 1..(Len(defs) - 53) |-> TileAt(defs, 52 + k)]], 0)

createGameState(defs) ==
  Let(Deal(defs, 0), LAMBDA d :
    [phase |-> "playing",
     players |-> [i \in Seats |->
        NewPlayer(WindNames[i + 1], d.hands[i], d.bonuses[i], i = 0, 0)],
     wall |-> d.wall, currentPlayerIndex |-> 0, roundWind |-> "east", roundNumber |-> 1,
     turnNumber |-> 1, lastDiscard |-> NullTile, lastDiscardPlayer |-> NullIdx,
     tilesRemaining |-> Len(d.wall)])

(* ---------------- lobby and connections ---------------- *)

\* `ai-${n}`, the connection id of the bot pushed at lobby index n
AiConnId(n) == 0 - n
AllConnIds == ClientIds \cup {AiConnId(n) : n \in 1..3}

LobbyIndexOf(r, c) == FindIndex(r.lobbyPlayers, LAMBDA lp : lp.connectionId = c)

handleReconnect(r, c, playerIdx) ==
  [r EXCEPT
     !.disconnectTimers = @ \ {playerIdx},
     !.aiPlayerIndices = @ \ {playerIdx},
     !.humanConnections[playerIdx] = c,
     !.connectionToPlayer[c] = playerIdx]

onConnect(r, c, reconnectToken) ==
  IF reconnectToken # NoToken /\ r.reconnectTokens[reconnectToken] # NullIdx
  THEN handleReconnect(r, c, r.reconnectTokens[reconnectToken])
  ELSE IF r.status # "waiting" THEN r
  ELSE IF Len(r.lobbyPlayers) >= 4 THEN r
  ELSE [r EXCEPT !.lobbyPlayers = Append(@,
          [connectionId |-> c, isHost |-> Len(r.lobbyPlayers) = 0,
           reconnectToken |-> IF reconnectToken # NoToken THEN reconnectToken
                              ELSE TokenOf(c)])]

\* The lobby branch of onClose: the player leaves the list, the first one left
\* becomes host if no host is left
LobbyLeft(r, c) ==
  Let(LobbyIndexOf(r, c), LAMBDA idx :
    IF idx = 0 THEN r
    ELSE Let(RemoveAt(r.lobbyPlayers, idx), LAMBDA rest :
           [r EXCEPT !.lobbyPlayers =
              IF Len(rest) > 0 /\ ~\E i \in 1..Len(rest) : rest[i].isHost
              THEN [rest EXCEPT ![1].isHost = TRUE]
              ELSE rest]))

\* The in-game branch of onClose up to the grace timer: the seat is unbound, a
\* bot takes over a turn in progress, a pending claim response becomes a pass
Unseated(r, c, playerIdx) ==
  Let([r EXCEPT
         !.humanConnections[playerIdx] = NoConn,
         !.connectionToPlayer[c] = NullIdx,
         \* it is this player's turn: a bot acts for them
         !.aiPlayerIndices =
            IF r.gameState # NullGame /\ r.gameState.currentPlayerIndex = playerIdx
            THEN @ \cup {playerIdx} ELSE @,
         !.aiTimer =
            IF r.gameState # NullGame /\ r.gameState.currentPlayerIndex = playerIdx
            THEN TurnTimer ELSE @],
      LAMBDA r2 :
        IF r2.claimResponses[playerIdx] = NullResp
        THEN Let([r2 EXCEPT !.claimResponses[playerIdx] = Resp("pass")], LAMBDA answered :
               IF \A i \in Seats : answered.claimResponses[i].has
                                   => answered.claimResponses[i].action # "null"
               THEN resolveClaimWindow(answered)
               ELSE answered)
        ELSE r2)

onClose(r0, c) ==
  Let(r0, LAMBDA r :
    IF r.status = "waiting" THEN LobbyLeft(r, c)
    ELSE IF r.connectionToPlayer[c] = NullIdx THEN r
    ELSE Let(Unseated(r, c, r.connectionToPlayer[c]), LAMBDA r3 :
           LET playerIdx == r.connectionToPlayer[c]
           IN IF r3.crashed THEN r3
              ELSE \* the grace timer; a timer already in the Map stays pending
                [r3 EXCEPT
                   !.disconnectTimers = @ \cup {playerIdx},
                   !.leakedGraceTimers[playerIdx] =
                      IF playerIdx \in r3.disconnectTimers THEN @ + 1 ELSE @]))

\* The callback of a grace timer of seat playerIdx.  `referenced` tells whether
\* it is the timer the Map entry refers to.
graceTimeout(r, playerIdx, referenced) ==
  [r EXCEPT
     !.aiPlayerIndices = @ \cup {playerIdx},
     !.disconnectTimers = @ \ {playerIdx},
     !.leakedGraceTimers[playerIdx] =
        IF referenced THEN @
        ELSE IF playerIdx \in r.disconnectTimers THEN @ ELSE @ - 1]

\* The seat loop of handleStartGame: Map.set in index order, so the last seat
\* set for a key stays
Seated(r, filled, humanCount) ==
  LET Lp(i) == filled[i + 1]
      humans == {i \in Seats : i < humanCount}
      Last(S) == CHOOSE i \in S : \A j \in S : j <= i
  IN [r EXCEPT
        !.lobbyPlayers = filled,
        !.aiPlayerIndices = @ \cup (Seats \ humans),
        !.humanConnections = [i \in Seats |->
            IF i \in humans THEN Lp(i).connectionId ELSE @[i]],
        !.connectionToPlayer = [c \in AllConnIds |->
            IF \E i \in humans : Lp(i).connectionId = c
            THEN Last({i \in humans : Lp(i).connectionId = c}) ELSE @[c]],
        !.reconnectTokens = [t \in DOMAIN r.reconnectTokens |->
            IF \E i \in humans : Lp(i).reconnectToken = t
            THEN Last({i \in humans : Lp(i).reconnectToken = t}) ELSE @[t]]]

handleStartGame(r0, sender, defs) ==
  Let(r0, LAMBDA r :
    LET h == LobbyIndexOf(r, sender)
        humanCount == Len(r.lobbyPlayers)
        filled == r.lobbyPlayers \o
                  [k \in 1..(4 - humanCount) |->
                     [connectionId |-> AiConnId(humanCount + k - 1), isHost |-> FALSE,
                      reconnectToken |-> NoToken]]
    IN IF h = 0 THEN r
       ELSE IF ~r.lobbyPlayers[h].isHost THEN r
       ELSE Let(Seated(r, filled, humanCount), LAMBDA r1 :
              [r1 EXCEPT
                 !.gameState = createGameState(defs),
                 !.status = "in-game",
                 !.aiTimer = IF 0 \in r1.aiPlayerIndices THEN DiscardTimer(0) ELSE @]))

(* ---------------- next round ---------------- *)

findLastWinner(gs) ==
  FirstSeat({i \in Seats : checkWin(gs.players[i].hand, gs.players[i].melds)})

WindIndex(w) == CHOOSE i \in 1..4 : WindNames[i] = w

\* The round handleNextRound sets up once it knows whether the banker won
NextRoundState(gs, bankerWon, defs) ==
  LET windIdx == WindIndex(gs.roundWind)
      nextRoundNumber == IF bankerWon THEN gs.roundNumber
                         ELSE IF gs.roundNumber + 1 > 4 THEN 1 ELSE gs.roundNumber + 1
      nextRoundWind == IF bankerWon \/ gs.roundNumber + 1 <= 4 THEN gs.roundWind
                       ELSE IF windIdx - 1 < 3 THEN WindNames[windIdx + 1] ELSE "east"
      newSeatWinds == [i \in Seats |->
                         IF bankerWon THEN gs.players[i].seatWind
                         ELSE WindNames[(WindIndex(gs.players[i].seatWind) % 4) + 1]]
  IN Let(FirstSeat({i \in Seats : newSeatWinds[i] = "east"}), LAMBDA eastIdx :
     Let(Deal(defs, eastIdx), LAMBDA d :
       [phase |-> "playing",
        players |-> [i \in Seats |->
           NewPlayer(newSeatWinds[i], d.hands[i], d.bonuses[i], i = eastIdx,
                     gs.players[i].score)],
        wall |-> d.wall, currentPlayerIndex |-> eastIdx,
        roundWind |-> nextRoundWind, roundNumber |-> nextRoundNumber,
        turnNumber |-> 1, lastDiscard |-> NullTile,
        lastDiscardPlayer |-> NullIdx, tilesRemaining |-> Len(d.wall)]))

handleNextRound(r0, defs) ==
  Let(r0, LAMBDA r :
    LET gs == r.gameState
        \* findIndex gives -1 when nobody sits East
        eastPlayerIdx == FirstSeat({i \in Seats : gs.players[i].seatWind = "east"})
    IN IF gs = NullGame THEN Throw(r)
       ELSE
       Let(IF gs.phase = "finished" THEN findLastWinner(gs) ELSE NullIdx, LAMBDA lastWinner :
       \* `null === -1` is false
       Let(NextRoundState(gs, lastWinner # NullIdx /\ lastWinner = eastPlayerIdx, defs),
           LAMBDA next :
             [r EXCEPT
                !.gameState = next,
                !.roundOver = <<>>,
                !.aiTimer = IF next.currentPlayerIndex \in r.aiPlayerIndices
                            THEN DiscardTimer(next.currentPlayerIndex) ELSE @])))

(* ----------------------------------------------------------------------- *)
(* Shuffles.  shuffle() may return any permutation of generateTileSet; the  *)
(* model deals from the permutations listed in Decks.                      *)
(* ----------------------------------------------------------------------- *)

C(v) == SuitT("character", v)
B(v) == SuitT("bamboo", v)
D(v) == SuitT("dot", v)

\* Seat 0 is dealt a complete hand around 1-character and 9-dot, seat 1 holds
\* three 1-character and two 9-dot and waits for 4-character, seat 2 waits for
\* 4-character, seat 3 waits for 6- or 9-dot; 4-character heads the wall.
DeckWaiting ==
  <<C(1), C(2), C(3), B(1), B(2), B(3), B(4), B(5), B(6), D(5), D(5), D(7), D(8)>>
  \o <<C(1), C(1), C(1), C(3), C(5), B(7), B(8), B(9), D(9), D(9),
       WindT("east"), WindT("east"), WindT("east")>>
  \o <<C(4), C(7), C(8), C(9), D(1), D(2), D(3),
       DragonT("green"), DragonT("green"), DragonT("green"),
       DragonT("white"), DragonT("white"), DragonT("white")>>
  \o <<D(7), D(8), WindT("south"), WindT("south"),
       WindT("west"), WindT("west"), WindT("west"),
       WindT("north"), WindT("north"), WindT("north"),
       DragonT("red"), DragonT("red"), DragonT("red")>>
  \o <<D(9), C(4), D(9)>>
  \* the tiles left, in the order generateTileSet lists them
  \o (
       Copies(B(1), 3) \o Copies(B(2), 3) \o Copies(B(3), 3) \o Copies(B(4), 3)
    \o Copies(B(5), 3) \o Copies(B(6), 3) \o Copies(B(7), 3) \o Copies(B(8), 3)
    \o Copies(B(9), 3) \o Copies(C(2), 3) \o Copies(C(3), 2) \o Copies(C(4), 2)
    \o Copies(C(5), 3) \o Copies(C(6), 4) \o Copies(C(7), 3) \o Copies(C(8), 3)
    \o Copies(C(9), 3) \o Copies(D(1), 3) \o Copies(D(2), 3) \o Copies(D(3), 3)
    \o Copies(D(4), 4) \o Copies(D(5), 2) \o Copies(D(6), 4) \o Copies(D(7), 2)
    \o Copies(D(8), 2) \o Copies(WindT("east"), 1)
    \o Copies(WindT("south"), 2) \o Copies(WindT("west"), 1)
    \o Copies(WindT("north"), 1) \o Copies(DragonT("red"), 1)
    \o Copies(DragonT("green"), 1) \o Copies(DragonT("white"), 1))
  \o Flatten([v \in 1..4 |-> <<BonusT("flower", v), BonusT("animal", v)>>])

\* Seat 0 is dealt the same complete hand; seat 1 holds three 9-dot, which seat
\* 0 can discard and later win on, and four east winds; seat 2 holds 7-dot and
\* 8-dot, which make a run with 9-dot; for the rest seats 2 and 3 hold pairs of
\* honours that no discard of seats 0 and 1 matches.
DeckKongs ==
  <<C(1), C(2), C(3), B(1), B(2), B(3), B(4), B(5), B(6), D(5), D(5), D(7), D(8)>>
  \o <<C(1), C(1), C(3), C(5), B(7), B(8), D(9), D(9), D(9),
       WindT("east"), WindT("east"), WindT("east"), WindT("east")>>
  \o <<D(7), D(8), WindT("south"), WindT("west"), WindT("west"),
       WindT("north"), WindT("north"), DragonT("red"), DragonT("red"),
       DragonT("green"), DragonT("green"), DragonT("white"), DragonT("white")>>
  \o <<B(9), WindT("south"), WindT("south"), WindT("west"), WindT("west"),
       WindT("north"), WindT("north"), DragonT("red"), DragonT("red"),
       DragonT("green"), DragonT("green"), DragonT("white"), DragonT("white")>>
  \o <<D(9), C(4)>>
  \* the tiles left, in the order generateTileSet lists them
  \o (
       Copies(C(1), 1) \o Copies(C(2), 3) \o Copies(C(3), 2) \o Copies(C(4), 3)
    \o Copies(C(5), 3) \o Copies(C(6), 4) \o Copies(C(7), 4) \o Copies(C(8), 4)
    \o Copies(C(9), 4) \o Copies(B(1), 3) \o Copies(B(2), 3) \o Copies(B(3), 3)
    \o Copies(B(4), 3) \o Copies(B(5), 3) \o Copies(B(6), 3) \o Copies(B(7), 3)
    \o Copies(B(8), 3) \o Copies(B(9), 3) \o Copies(D(1), 4) \o Copies(D(2), 4)
    \o Copies(D(3), 4) \o Copies(D(4), 4) \o Copies(D(5), 2) \o Copies(D(6), 4)
    \o Copies(D(7), 2) \o Copies(D(8), 2) \o Copies(WindT("south"), 1))
  \o Flatten([v \in 1..4 |-> <<BonusT("flower", v), BonusT("animal", v)>>])

Decks == <<DeckWaiting, DeckKongs>>

IsShuffle(defs) ==
  /\ Len(defs) = Len(generateTileSet)
  /\ \A i \in 1..Len(defs) :
        Cardinality({j \in 1..Len(defs) : defs[j] = defs[i]})
        = Cardinality({j \in 1..Len(defs) : generateTileSet[j] = defs[i]})


(* ----------------------------------------------------------------------- *)
(* Bounds and inputs of the exploration                                    *)
(* ----------------------------------------------------------------------- *)

\* Game messages and timers are followed while the turn counter is at most
\* MaxTurn in the first hand dealt and at most MaxTurnNext in a later one
MaxTurn == 3
MaxTurnNext == 0
\* ... and while a player holds at most MaxHand tiles before a draw
MaxHand == 14
\* Hands dealt in one run (start-game and next-round)
MaxDeals == 2
\* Disconnections in a game plus messages with an effect that a client
\* following the protocol would not send
MaxUpsets == 1

\* ... or, whatever the turn counter, while at most MaxEndWall tiles are in the
\* wall; the end of a hand is explored from MaxLeft tiles in the wall
MaxEndWall == 3
MaxLeft == 1

\* A tile id no tile has
BadTileId == Len(generateTileSet)

\* The tile ids a client puts in a discard message: the first MaxDiscardPos
\* tiles and the last tile of the sender's hand, and an id that is in no hand.
MaxDiscardPos == 1
DiscardIds(c) ==
  LET i == connectionToPlayer[c]
      hand == IF i = NullIdx THEN <<>> ELSE gameState.players[i].hand
  IN {BadTileId}
     \cup {hand[k].id : k \in {j \in 1..Len(hand) : j <= MaxDiscardPos \/ j = Len(hand)}}

\* chiIndex of a chi message, -1 for an absent field, up to MaxChiIndex
MaxChiIndex == 1
ChiIndices == -1..MaxChiIndex

\* The outcomes of the two Math.random() draws of a bot's pong and chi decision
Rnds == [pong : BOOLEAN, chi : BOOLEAN]
NoRnd == [pong |-> FALSE, chi |-> FALSE]

\* An 'action' message, with the random draws its handling makes
Msg(action, tileId, chiIndex, rnd) ==
  [action |-> action, tileId |-> tileId, chiIndex |-> chiIndex, rnd |-> rnd]

InBounds ==
  /\ \/ gameState.turnNumber <= (IF deals <= 1 THEN MaxTurn ELSE MaxTurnNext)
     \/ gameState # NullGame /\ Len(gameState.wall) <= MaxEndWall
  /\ \A i \in Seats : Len(gameState.players[i].hand) <= MaxHand

\* The state a handler starts from
Begin == [This EXCEPT !.crashed = FALSE, !.resolution = NoResolution]

\* The tokens a connecting client can present: none, or one the room gave a seat
KnownTokens == {t \in Tokens : reconnectTokens[t] # NullIdx}

\* What a client following the protocol sends from seat i: a draw or a discard
\* of a held tile on its turn, a self-kong or a win its hand allows, and, while
\* a claim window waits for it, one of the claims the discard allows or a pass.
Expected(i, m) ==
  LET gs == gameState
      player == gs.players[i]
      size == Len(player.hand) + 3 * Len(player.melds)
      myTurn == /\ gs.phase = "playing"
                /\ ~claimWindow.open
                /\ gs.currentPlayerIndex = i
      asked == /\ gs.phase = "playing"
               /\ claimWindow.open
               /\ i \in claimWindow.offered
               /\ ~claimResponses[i].has
      def == gs.lastDiscard.definition
  IN CASE m.action = "draw" -> myTurn /\ size = 13
       [] m.action = "discard" -> myTurn /\ size = 14 /\ m.tileId \in IdsOf(player.hand)
       [] m.action = "kong" ->
            \/ myTurn /\ size = 14 /\ canSelfKong(player).type # "null"
            \/ asked /\ canKong(player.hand, def) # <<>>
       [] m.action = "win" ->
            \/ myTurn /\ size = 14 /\ checkWin(player.hand, player.melds)
            \/ asked /\ checkWinWithTile(player.hand, player.melds, gs.lastDiscard)
       [] m.action = "pong" -> asked /\ canPong(player.hand, def) # <<>>
       [] m.action = "chi" ->
            /\ asked
            /\ Let(Len(canAllChi(player.hand, def, i, gs.lastDiscardPlayer)),
                   LAMBDA options :
                     IF m.chiIndex = -1 THEN options = 1 ELSE m.chiIndex < options)
       [] m.action = "pass" -> asked
       [] OTHER -> FALSE

Open(c) == connections[c] = "open"

\* An event whose handling leaves r is followed if the protocol calls for it,
\* if it changes nothing, or while fewer than MaxUpsets other events have been
\* followed; the room is then left as r and the event counted.
Follow(expected, r) ==
  /\ expected \/ r = Begin \/ upsets < MaxUpsets
  /\ Commit(r)
  /\ upsets' = IF expected \/ r = Begin THEN upsets ELSE upsets + 1

(* ----------------------------------------------------------------------- *)
(* Initial state and actions                                               *)
(* ----------------------------------------------------------------------- *)

Init ==
  /\ status = "waiting"
  /\ lobbyPlayers = <<>>
  /\ gameState = NullGame
  /\ aiPlayerIndices = {}
  /\ humanConnections = [i \in Seats |-> NoConn]
  /\ connectionToPlayer = [c \in AllConnIds |-> NullIdx]
  /\ reconnectTokens = [t \in Tokens \cup {NoToken} |-> NullIdx]
  /\ claimResponses = [i \in Seats |-> NoResp]
  /\ claimTimer = NoClaimTimer
  /\ leakedClaimTimers = [i \in Seats |-> 0]
  /\ aiTimer = NoTimer
  /\ disconnectTimers = {}
  /\ leakedGraceTimers = [i \in Seats |-> 0]
  /\ connections = [c \in ClientIds |-> "new"]
  /\ roundOver = <<>>
  /\ claimWindow = NoClaimWindow
  /\ resolution = NoResolution
  /\ deals = 0
  /\ upsets = 0
  /\ crashed = FALSE
  /\ \A d \in 1..Len(Decks) : IsShuffle(Decks[d])

\* A client opens a connection; ids are handed out in order.
Connect(c, token) ==
  /\ connections[c] = "new"
  /\ \A b \in ClientIds : b < c => connections[b] # "new"
  /\ connections' = [connections EXCEPT ![c] = "open"]
  /\ Commit(onConnect(Begin, c, token))
  /\ UNCHANGED <<deals, upsets>>

\* The connection of a client closes, or the client sends 'leave'.
Close(c, leave) ==
  /\ Open(c)
  /\ connections' = IF leave THEN connections ELSE [connections EXCEPT ![c] = "closed"]
  /\ \E r \in {onClose(Begin, c)} : Follow(status = "waiting", r)
  /\ UNCHANGED deals

\* The same event, however many clients have come and gone before
Drop(c, leave) ==
  /\ Open(c)
  /\ connections' = IF leave THEN connections ELSE [connections EXCEPT ![c] = "closed"]
  /\ Commit(onClose(Begin, c))
  /\ UNCHANGED <<deals, upsets>>

StartGame(c, d) ==
  /\ Open(c)
  /\ deals < MaxDeals
  /\ \E r \in {handleStartGame(Begin, c, Decks[d])} :
        /\ Follow(status = "waiting", r)
        /\ deals' = IF r = Begin THEN deals ELSE deals + 1
  /\ UNCHANGED connections

NextRound(c, d) ==
  /\ Open(c)
  /\ deals < MaxDeals
  /\ \E r \in {handleNextRound(Begin, Decks[d])} :
        /\ Follow(gameState.phase = "finished", r)
        /\ deals' = IF r.crashed THEN deals ELSE deals + 1
  /\ UNCHANGED connections

\* An 'action' message m from connection c
Message(c, m) ==
  /\ Open(c)
  /\ InBounds
  /\ \E r \in {handleAction(Begin, c, m.action, m.tileId, m.chiIndex, m.rnd)} :
        Follow(connectionToPlayer[c] # NullIdx /\ Expected(connectionToPlayer[c], m), r)
  /\ UNCHANGED <<connections, deals>>

Draw(c) == Message(c, Msg("draw", NullTile.id, -1, NoRnd))
Discard(c, tileId, rnd) == Message(c, Msg("discard", tileId, -1, rnd))
Chi(c, chiIndex) == Message(c, Msg("chi", NullTile.id, chiIndex, NoRnd))
Pong(c) == Message(c, Msg("pong", NullTile.id, -1, NoRnd))
Kong(c, rnd) == Message(c, Msg("kong", NullTile.id, -1, rnd))
Win(c) == Message(c, Msg("win", NullTile.id, -1, NoRnd))
Pass(c) == Message(c, Msg("pass", NullTile.id, -1, NoRnd))

\* onMessage on a text JSON.parse accepts but that is no object, the text
\* `null`: nothing catches the TypeError of `switch (msg.type)`.  (A text that
\* does not parse returns from the catch block and changes nothing.)
onMessageNull(r) == Throw(r)

NullMessage(c) ==
  /\ Open(c)
  /\ Commit(onMessageNull(Begin))
  /\ UNCHANGED <<connections, deals, upsets>>

\* A claim timer fires: the one this.claimTimer refers to, or one of discarder
\* d that the field no longer refers to.
ClaimTimerFires(d, referenced) ==
  /\ IF referenced
     THEN claimTimer.set /\ claimTimer.pending /\ claimTimer.discarder = d
     ELSE leakedClaimTimers[d] > 0
  /\ InBounds
  /\ Commit(claimTimeout(IF referenced THEN [Begin EXCEPT !.claimTimer.pending = FALSE]
                         ELSE [Begin EXCEPT !.leakedClaimTimers[d] = @ - 1], d))
  /\ UNCHANGED <<connections, deals, upsets>>

AiTimerFires(rnd) ==
  /\ aiTimer # NoTimer
  /\ InBounds
  /\ Commit(runAiTimer([Begin EXCEPT !.aiTimer = NoTimer], aiTimer, rnd))
  /\ UNCHANGED <<connections, deals, upsets>>

\* A grace timer of seat i fires: the one the Map refers to, or a leaked one.
GraceTimerFires(i, referenced) ==
  /\ IF referenced THEN i \in disconnectTimers ELSE leakedGraceTimers[i] > 0
  /\ Commit(graceTimeout(Begin, i, referenced))
  /\ UNCHANGED <<connections, deals, upsets>>

Next ==
  \/ \E c \in ConnIds : \E t \in {NoToken} \cup KnownTokens : Connect(c, t)
  \/ \E c \in ConnIds : \E leave \in BOOLEAN : Close(c, leave)
  \/ \E c \in ConnIds : \E d \in 1..Len(Decks) : StartGame(c, d)
  \/ \E c \in ConnIds : \E d \in 1..Len(Decks) : NextRound(c, d)
  \/ \E c \in ConnIds : NullMessage(c)
  \/ \E c \in ConnIds : Draw(c)
  \/ \E c \in ConnIds : \E t \in DiscardIds(c) : \E rnd \in Rnds : Discard(c, t, rnd)
  \/ \E c \in ConnIds : \E k \in ChiIndices : Chi(c, k)
  \/ \E c \in ConnIds : Pong(c)
  \/ \E c \in ConnIds : \E rnd \in Rnds : Kong(c, rnd)
  \/ \E c \in ConnIds : Win(c)
  \/ \E c \in ConnIds : Pass(c)
  \/ \E d \in Seats : \E referenced \in BOOLEAN : ClaimTimerFires(d, referenced)
  \/ \E rnd \in Rnds : AiTimerFires(rnd)
  \/ \E i \in Seats : \E referenced \in BOOLEAN : GraceTimerFires(i, referenced)

Spec == Init /\ [][Next]_vars

\* Clients that connect, reconnect, leave and start the game, without playing
ComeAndGo ==
  \/ \E c \in ClientIds : \E t \in {NoToken} \cup KnownTokens : Connect(c, t)
  \/ \E c \in ClientIds : \E leave \in BOOLEAN : Drop(c, leave)
  \/ \E c \in ClientIds : \E d \in 1..Len(Decks) : StartGame(c, d)
  \/ \E i \in Seats : \E referenced \in BOOLEAN : GraceTimerFires(i, referenced)

ConnSpec == Init /\ [][ComeAndGo]_vars

\* The timers of the room fire: a timer that stays pending is not postponed
\* for ever.  Clients are under no obligation to send anything.
FairSpec ==
  /\ Spec
  /\ WF_vars(\E rnd \in Rnds : AiTimerFires(rnd))
  /\ WF_vars(\E d \in Seats : \E referenced \in BOOLEAN : ClaimTimerFires(d, referenced))
  /\ WF_vars(\E i \in Seats : \E referenced \in BOOLEAN : GraceTimerFires(i, referenced))

(* ----------------------------------------------------------------------- *)
(* Properties                                                              *)
(* ----------------------------------------------------------------------- *)

HandInProgress == gameState # NullGame /\ gameState.phase = "playing"

MeldTiles(player) == Flatten([m \in 1..Len(player.melds) |-> player.melds[m].tiles])

\* Every tile the game state holds: the wall, then each seat's hand, discard
\* pile, melds and revealed bonuses
AllTiles(gs) ==
  gs.wall \o Flatten([k \in 1..4 |->
     gs.players[k - 1].hand \o gs.players[k - 1].discards
     \o MeldTiles(gs.players[k - 1]) \o gs.players[k - 1].revealedBonuses])

\* The tiles and melds that count towards a seat's hand size
HandSize(player) == Len(player.hand)
MeldCount(player) == Len(player.melds)

\* C1: while a game state exists, the 144 tile ids are each in exactly one of
\* the wall, a hand, a discard pile, a meld or a revealed-bonus area: the areas
\* hold 144 tiles in all and no id occurs twice.
C1_TileConservation ==
  gameState # NullGame =>
    /\ Len(AllTiles(gameState)) = Len(generateTileSet)
    /\ Cardinality(IdsOf(AllTiles(gameState))) = Len(generateTileSet)

\* C2: during a hand in progress a player with m melds holds 13 - 3m or
\* 14 - 3m hand tiles, and only the current player holds the larger number.
C2_HandArithmetic ==
  HandInProgress =>
    \A i \in Seats :
      LET player == gameState.players[i]
      IN \/ HandSize(player) = 13 - 3 * MeldCount(player)
         \/ /\ HandSize(player) = 14 - 3 * MeldCount(player)
            /\ i = gameState.currentPlayerIndex

\* The round-over message a step broadcasts, if it broadcasts one
RoundEnds == Len(roundOver') = Len(roundOver) + 1
Ending == roundOver'[Len(roundOver')]

\* C3: whenever a round ends with a winner, the winner's hand and melds at that
\* moment satisfy the win check; a `win` from a hand that does not complete
\* therefore never makes its sender the winner.
C3_WinnerValidity ==
  [][(RoundEnds /\ Ending.winnerIndex # NullIdx) =>
       checkWin(gameState'.players[Ending.winnerIndex].hand,
                gameState'.players[Ending.winnerIndex].melds)]_vars

\* A step that resolves a claim window leaves what it did in resolution'
Resolves == resolution'.effect \notin {"none", "throw"}

\* C4: when a claim window is resolved and a seat other than the discarder
\* answered win, no kong, pong or chi claim takes effect: the resolution is
\* none of those and no claimer gains a meld.
C4_ClaimPriority ==
  [][(/\ Resolves
      /\ \E i \in Seats : /\ i # resolution'.discarder
                          /\ resolution'.responses[i].action = "win")
     => /\ resolution'.effect \notin {"kong", "pong", "chi"}
        /\ \A i \in Seats :
              i # resolution'.discarder =>
                gameState'.players[i].melds = gameState.players[i].melds]_vars

\* A window resolved as a win although another seat had claimed a pong
C4_Witness ==
  /\ resolution.effect = "win"
  /\ \E i \in Seats : /\ i # resolution.discarder
                      /\ i # resolution.who
                      /\ resolution.responses[i].action = "pong"
                      /\ Len(gameState.players[i].melds) = 0

\* The seats whose win declaration on the resolved discard was a complete hand
\* (the winner's hand already holds the discard)
ValidDeclarers ==
  {i \in Seats :
     /\ i # resolution.discarder
     /\ resolution.responses[i].action = "win"
     /\ IF i = resolution.who
        THEN checkWin(gameState.players[i].hand, gameState.players[i].melds)
        ELSE checkWinWithTile(gameState.players[i].hand, gameState.players[i].melds,
                              resolution.discard)}

\* The seat of S that comes first after seat d in turn order
ClosestAfter(d, S) ==
  CHOOSE i \in S : \A j \in S : ((i - d + 4) % 4) <= ((j - d + 4) % 4)

\* C5: when several seats declare a valid win on the same discard, the winner
\* is the declarer closest after the discarder in turn order.
C5_ClosestWinner ==
  (/\ resolution.effect = "win"
   /\ resolution.discarder \in Seats
   /\ Cardinality(ValidDeclarers) >= 2)
  => resolution.who = ClosestAfter(resolution.discarder, ValidDeclarers)

\* The amount the round-over message e charges or pays seat i
PaymentOf(e, i) ==
  LET found == {k \in 1..Len(e.paymentResult.payments) :
                  e.paymentResult.payments[k].playerIndex = i}
  IN IF found = {} THEN 0 ELSE e.paymentResult.payments[Least(found)].amount

\* A step in which seat w wins on the discard of seat d with a complete hand
WinsOnDiscard(w, d) ==
  /\ resolution'.effect = "win"
  /\ RoundEnds
  /\ w = resolution'.who
  /\ d = resolution'.discarder
  /\ ~resolution'.rob
  /\ checkWinWithTile(gameState.players[w].hand, gameState.players[w].melds,
                      resolution'.discard)

\* What seat i pays or receives when w wins on d's discard for `base` points
ShooterDelta(i, w, d, base) ==
  IF i = w THEN 4 * base ELSE IF i = d THEN 0 - 2 * base ELSE 0 - base

\* C6: on a win on a discard the discarder pays twice the base points, the two
\* others pay the base points, the winner receives four times the base points,
\* and the scores change by exactly these amounts.
C6_ShooterPaysDouble ==
  [][\A w, d \in Seats :
       WinsOnDiscard(w, d) =>
         \A i \in Seats :
           LET delta == ShooterDelta(i, w, d, Ending.taiResult.basePoints)
           IN /\ PaymentOf(Ending, i) = delta
              /\ gameState'.players[i].score = gameState.players[i].score + delta]_vars

\* A step in which seat q wins on the tile seat p promoted a pong to kong with
RobsTheKong(q, p) ==
  /\ resolution'.effect = "win"
  /\ resolution'.rob
  /\ RoundEnds
  /\ q = resolution'.who
  /\ p = resolution'.discarder

\* C7: when q wins on the tile p promoted, the round ends with q as winner and
\* p as shooter: p pays twice the base points and the two others pay the base.
C7_RobbingTheKong ==
  [][\A q, p \in Seats :
       RobsTheKong(q, p) =>
         /\ Ending.winnerIndex = q
         /\ \A i \in Seats \ {q} :
               PaymentOf(Ending, i) =
                 ShooterDelta(i, q, p, Ending.taiResult.basePoints)]_vars

\* A step in which the current player w, holding a complete hand it drew
\* itself while no claim window is open, ends the round as winner
WinsOnOwnDraw(w) ==
  /\ HandInProgress
  /\ ~claimWindow.open
  /\ w = gameState.currentPlayerIndex
  /\ checkWin(gameState.players[w].hand, gameState.players[w].melds)
  /\ RoundEnds
  /\ Ending.winnerIndex = w

\* C8: a win of the current player on a tile it drew itself is scored as a
\* self-draw: the breakdown has the self-draw entry, every other seat pays the
\* base points (there is no shooter), and the winning hand has 14 - 3m tiles.
C8_SelfDrawScoring ==
  [][\A w \in Seats :
       WinsOnOwnDraw(w) =>
         /\ \E k \in 1..Len(Ending.taiResult.breakdown) :
               Ending.taiResult.breakdown[k].name = "Self-drawn"
         /\ \A i \in Seats \ {w} :
               PaymentOf(Ending, i) = 0 - Ending.taiResult.basePoints
         /\ HandSize(gameState'.players[w]) = 14 - 3 * MeldCount(gameState'.players[w])]_vars

\* The action messages a client can send on connection c
ActionMessages(c) ==
  {Msg(a, NullTile.id, -1, NoRnd) : a \in {"draw", "pong", "win", "pass"}}
  \cup {Msg("discard", t, -1, rnd) : t \in DiscardIds(c), rnd \in Rnds}
  \cup {Msg("chi", NullTile.id, k, NoRnd) : k \in ChiIndices}
  \cup {Msg("kong", NullTile.id, -1, rnd) : rnd \in Rnds}

\* C9: while a hand is in progress and no claim window is open, an action
\* message from a seat that is not the current player leaves the game state
\* as it is.
C9_OutOfTurnIgnored ==
  \A c \in ConnIds :
    (/\ Open(c)
     /\ HandInProgress
     /\ ~claimWindow.open
     /\ connectionToPlayer[c] # NullIdx
     /\ connectionToPlayer[c] # gameState.currentPlayerIndex)
    => \A m \in ActionMessages(c) :
          handleAction(Begin, c, m.action, m.tileId, m.chiIndex, m.rnd).gameState
            = gameState

\* C10: a claim window is resolved only when its timeout fired or every seat
\* that was offered a claim has answered: after a resolution that was not the
\* timeout's, no connected human who was offered a claim is without a response.
C10_ResolvedWhenComplete ==
  (resolution.effect \notin {"none", "throw"} /\ ~resolution.timeout)
  => \A i \in claimWindow.offered :
        (humanConnections[i] # NoConn /\ i \notin aiPlayerIndices)
        => resolution.responses[i].has

\* Seat i was offered a claim in the open window and has not answered
PendingClaim(i) ==
  /\ HandInProgress
  /\ claimWindow.open
  /\ i \in claimWindow.offered
  /\ ~claimResponses[i].has

\* A step in which the connection of seat i goes away
Disconnects(i) == humanConnections[i] # NoConn /\ humanConnections'[i] = NoConn

\* The responses a step leaves: those it resolved, or those still collected
ResponsesAfter == IF Resolves THEN resolution'.responses ELSE claimResponses'

\* C11: when a human who was offered a claim and has not answered disconnects
\* while the window is open, a pass is recorded for them at once, and if every
\* other seat had answered the window is resolved in that step.
C11_DisconnectPasses ==
  [][\A i \in Seats :
       (PendingClaim(i) /\ Disconnects(i)) =>
         /\ ResponsesAfter[i].action = "pass"
         /\ (\A j \in Seats \ {i, claimWindow.discarder} : claimResponses[j].has)
            => Resolves]_vars

\* A step in which the timeout of the open window fires while none of the
\* humans it waits for has answered
TimeoutUnanswered ==
  /\ HandInProgress
  /\ claimWindow.open
  /\ claimWindow.discarder = gameState.lastDiscardPlayer
  /\ claimWindow.discarder = gameState.currentPlayerIndex
  /\ claimWindow.offered # {}
  /\ \A i \in claimWindow.offered : ~claimResponses[i].has
  \* the timer this.claimTimer refers to is the window's, and it fires
  /\ claimTimer.set /\ claimTimer.pending
  /\ claimTimer.discarder = claimWindow.discarder
  /\ claimTimer'.set /\ ~claimTimer'.pending

\* No seat other than the unanswered humans made a claim
NoOtherClaim ==
  \A j \in Seats : claimResponses[j].action \in {"none", "null", "pass"}

\* C12: when the timeout of a window fires that none of the humans it waits
\* for answered, the window is resolved with each of them treated as a pass;
\* if no other claim was made the turn passes to the seat after the discarder,
\* which is the one to draw: it is the current player of the hand in progress,
\* and a bot is scheduled to take its turn.
C12_TimeoutPasses ==
  [][TimeoutUnanswered =>
       /\ Resolves
       /\ ~claimWindow'.open
       /\ \A i \in claimWindow.offered : resolution'.responses[i] = NullResp
       /\ NoOtherClaim =>
            LET next == (claimWindow.discarder + 1) % 4
            IN /\ resolution'.effect = "pass"
               /\ HandInProgress'
               /\ gameState'.currentPlayerIndex = next
               /\ next \in aiPlayerIndices' => aiTimer' = TurnTimer]_vars

\* The timeout of an unanswered window has fired and passed the turn on
C12_Witness ==
  /\ resolution.timeout
  /\ claimTimer.set /\ ~claimTimer.pending
  /\ claimTimer.discarder = resolution.discarder
  /\ resolution.effect = "pass"
  /\ HandInProgress
  /\ claimWindow.offered # {}
  /\ \A i \in claimWindow.offered : resolution.responses[i] = NullResp
  /\ gameState.currentPlayerIndex = (resolution.discarder + 1) % 4

\* A claim-window timer that can still fire: the one this.claimTimer refers
\* to, or one the field no longer refers to
TimerPending ==
  \/ claimTimer.set /\ claimTimer.pending
  \/ \E d \in Seats : leakedClaimTimers[d] > 0

\* C13: once the claim window has been resolved, by whatever path, no
\* claim-window timer remains pending, so no timeout can resolve it again.
C13_TimerCancelled ==
  (gameState # NullGame /\ ~claimWindow.open) => ~TimerPending

\* Seat i was seated as a human at start-game
SeatedHuman(i) == \E t \in Tokens : reconnectTokens[t] = i

\* The turn has reached seat i while its human is away: the seat has no
\* connection, has yet to draw, and the last discard is another seat's
AwaitsAbsent(i) ==
  /\ HandInProgress
  /\ InBounds
  /\ SeatedHuman(i)
  /\ humanConnections[i] = NoConn
  /\ gameState.currentPlayerIndex = i
  /\ gameState.lastDiscardPlayer # i
  /\ HandSize(gameState.players[i]) = 13 - 3 * MeldCount(gameState.players[i])

\* Seat i has discarded or the turn has left it, the hand is over, or the
\* human is back
MovedOn(i) ==
  \/ ~HandInProgress
  \/ gameState.lastDiscardPlayer = i
  \/ gameState.currentPlayerIndex # i
  \/ humanConnections[i] # NoConn

\* C14: when the turn reaches the seat of a human who disconnected and does
\* not come back, the seat's draw and discard eventually happen by bot policy:
\* the hand does not stay waiting for the absent player.
C14_BotKeepsGameMoving ==
  \A i \in Seats : AwaitsAbsent(i) ~> MovedOn(i)

\* A step in which a new connection c is bound to seat i: a client connected
\* with the reconnect token of that seat
Reconnects(c, i) ==
  /\ connections[c] = "new"
  /\ connections'[c] = "open"
  /\ connectionToPlayer'[c] = i

\* C15: after a client connects with a known reconnect token, no grace timer
\* of the seat is pending any more (so none can later make the seat a bot),
\* the seat is not bot-owned, and the seat is bound to the new connection.
C15_Reconnection ==
  [][\A c \in ClientIds : \A i \in Seats :
       Reconnects(c, i) =>
         /\ i \notin disconnectTimers'
         /\ leakedGraceTimers'[i] = 0
         /\ i \notin aiPlayerIndices'
         /\ humanConnections'[i] = c]_vars

\* C16: a discard message of the current player that names a tile id not in
\* its hand changes nothing: the game state stays as it is (no tile moves, the
\* turn does not advance) and no claim window is opened or resolved.
C16_RejectedDiscard ==
  \A c \in ConnIds :
    (/\ Open(c)
     /\ HandInProgress
     /\ connectionToPlayer[c] # NullIdx
     /\ connectionToPlayer[c] = gameState.currentPlayerIndex)
    => \A rnd \in Rnds :
          LET r == handleAction(Begin, c, "discard", BadTileId, -1, rnd)
          IN /\ r.gameState = gameState
             /\ r.claimResponses = claimResponses
             /\ r.claimWindow = claimWindow
             /\ r.resolution = NoResolution

\* C17: a next-round message received while a hand is being played does not
\* deal again, rotate the seats, change the round number or change the game
\* state in any other way.
C17_NextRoundOnlyAfterRound ==
  HandInProgress =>
    \A d \in 1..Len(Decks) : handleNextRound(Begin, Decks[d]).gameState = gameState

\* C18: no handler dereferences a missing game state or a missing discard,
\* whatever message arrives in whatever room state.
C18_NoCrash == ~crashed

\* Seat i is a human whose turn it is, who has drawn and can declare a kong
\* from its own hand
CanDeclareKong(i) ==
  /\ HandInProgress
  /\ ~claimWindow.open
  /\ i = gameState.currentPlayerIndex
  /\ i \notin aiPlayerIndices
  /\ HandSize(gameState.players[i]) = 14 - 3 * MeldCount(gameState.players[i])
  /\ canSelfKong(gameState.players[i]).type # "null"

\* The kong that kongInfo announces for `before` is among the melds of `after`
KongFormed(before, after, kongInfo) ==
  IF kongInfo.type = "promote"
  THEN /\ Len(after.melds) = Len(before.melds)
       /\ after.melds[kongInfo.meldIndex].type = "kong"
       /\ IdsOf(after.melds[kongInfo.meldIndex].tiles)
            = IdsOf(before.melds[kongInfo.meldIndex].tiles) \cup {kongInfo.tile.id}
  ELSE /\ Len(after.melds) = Len(before.melds) + 1
       /\ after.melds[Len(after.melds)].type = "concealed-kong"
       /\ IdsOf(after.melds[Len(after.melds)].tiles) = IdsOf(kongInfo.tiles)

\* C19: when the current human player, having drawn, holds four tiles of one
\* definition or a tile matching one of its pong melds and sends kong, the
\* kong meld is formed, a replacement leaves the tail of the wall, and unless
\* the kong is robbed that player stays the current player; on any turn.
C19_HumanSelfKong ==
  \A c \in ConnIds :
    (Open(c) /\ connectionToPlayer[c] # NullIdx /\ CanDeclareKong(connectionToPlayer[c]))
    => \A rnd \in Rnds :
         LET i == connectionToPlayer[c]
             r == handleAction(Begin, c, "kong", NullTile.id, -1, rnd)
         IN /\ ~r.crashed
            /\ KongFormed(gameState.players[i], r.gameState.players[i],
                          canSelfKong(gameState.players[i]))
            /\ Len(r.gameState.wall) < Len(gameState.wall)
            /\ r.gameState.wall = SubSeq(gameState.wall, 1, Len(r.gameState.wall))
            /\ (r.resolution.effect # "win" => r.gameState.currentPlayerIndex = i)

\* The seat the last 'round-over' message names as winner, NullIdx in a draw
\* or while no round has ended
LastWinner ==
  IF gameState # NullGame /\ gameState.phase = "finished" /\ roundOver # <<>>
  THEN roundOver[Len(roundOver)].winnerIndex
  ELSE NullIdx

SeatWinds(gs) == [i \in Seats |-> gs.players[i].seatWind]

\* C20: when the round has ended with the East player as winner, next-round
\* leaves every seat wind, the round number and the round wind as they were
\* and makes that same player the current player.
C20_DealerRetention ==
  (LastWinner # NullIdx /\ gameState.players[LastWinner].seatWind = "east")
  => \A d \in 1..Len(Decks) :
       LET next == handleNextRound(Begin, Decks[d]).gameState
       IN /\ SeatWinds(next) = SeatWinds(gameState)
          /\ next.roundNumber = gameState.roundNumber
          /\ next.roundWind = gameState.roundWind
          /\ next.currentPlayerIndex = LastWinner

\* A hand has ended in a draw or with a winner who is not the dealer
EndedWithoutDealerWin ==
  /\ gameState # NullGame
  /\ gameState.phase = "finished"
  /\ roundOver # <<>>
  /\ \/ LastWinner = NullIdx
     \/ gameState.players[LastWinner].seatWind # "east"

NextWind(w) == WindNames[(WindIndex(w) % 4) + 1]

IsWindPermutation(gs) == {gs.players[i].seatWind : i \in Seats} = Range(WindNames)

\* C21: when the hand ended in a draw or with a winner other than the dealer,
\* next-round advances every seat wind one step, increments the round number,
\* and past round 4 resets it to 1 and advances the round wind one step; the
\* four seat winds are at all times a permutation of the four winds.
C21_Rotation ==
  /\ gameState # NullGame => IsWindPermutation(gameState)
  /\ EndedWithoutDealerWin
     => \A d \in 1..Len(Decks) :
          LET next == handleNextRound(Begin, Decks[d]).gameState
          IN /\ \A i \in Seats :
                  next.players[i].seatWind = NextWind(gameState.players[i].seatWind)
             /\ next.roundNumber = (gameState.roundNumber % 4) + 1
             /\ next.roundWind = IF gameState.roundNumber = 4
                                 THEN NextWind(gameState.roundWind)
                                 ELSE gameState.roundWind

(* ----------------------------------------------------------------------- *)
(* Deals over a family of shuffles                                         *)
(* ----------------------------------------------------------------------- *)

\* The shuffles dealt: the tile set read with stride s from offset k.  Both
\* strides are coprime to the 144 tiles, so each reading is a permutation.
\* They put the bonus tiles in one hand, across the hands, and at the tail of
\* the wall where the replacements are popped.
MaxShuffle == 11
Strides == {1, 5}
Offsets == {12 * k : k \in 0..MaxShuffle}
Shuffle(s, k) ==
  [i \in 1..Len(generateTileSet) |->
     generateTileSet[(((i - 1) * s + k) % Len(generateTileSet)) + 1]]

DealInit ==
  /\ Init
  /\ \A s \in Strides : \A k \in Offsets : IsShuffle(Shuffle(s, k))

StartShuffled(c, s, k) ==
  /\ Open(c)
  /\ deals < MaxDeals
  /\ \E r \in {handleStartGame(Begin, c, Shuffle(s, k))} :
        /\ Commit(r)
        /\ deals' = IF r = Begin THEN deals ELSE deals + 1
  /\ UNCHANGED <<connections, upsets>>

NextShuffled(c, s, k) ==
  /\ Open(c)
  /\ deals < MaxDeals
  /\ \E r \in {handleNextRound(Begin, Shuffle(s, k))} :
        /\ Commit(r)
        /\ deals' = IF r.crashed THEN deals ELSE deals + 1
  /\ UNCHANGED <<connections, upsets>>

Dealing ==
  \/ \E c \in ConnIds : Connect(c, NoToken)
  \/ \E c \in ConnIds : \E s \in Strides : \E k \in Offsets : StartShuffled(c, s, k)
  \/ \E c \in ConnIds : \E s \in Strides : \E k \in Offsets : NextShuffled(c, s, k)

DealSpec == DealInit /\ [][Dealing]_vars

BonusInHand(gs) ==
  {i \in Seats : \E t \in 1..Len(gs.players[i].hand) :
                    gs.players[i].hand[t].definition.type = "bonus"}

\* The state a hand starts in
StartOfHand(gs) ==
  /\ gs.phase = "playing"
  /\ gs.players[gs.currentPlayerIndex].seatWind = "east"
  /\ \A i \in Seats :
        /\ Len(gs.players[i].hand) = (IF i = gs.currentPlayerIndex THEN 14 ELSE 13)
        /\ gs.players[i].melds = <<>>
        /\ gs.players[i].discards = <<>>
  /\ Len(gs.wall) + SumSeq([i \in 1..4 |-> Len(gs.players[i - 1].hand)
                                          + Len(gs.players[i - 1].revealedBonuses)])
       = 144
  /\ Cardinality(IdsOf(AllTiles(gs))) = 144

\* C22: every start-game and next-round that deals, whatever the shuffle,
\* leaves the East player as current player with 14 tiles, every other player
\* with 13, no melds and no discards, phase playing, and 144 tiles in wall,
\* hands and revealed bonuses together.
C22_StartOfHand ==
  [][deals' > deals => StartOfHand(gameState')]_vars

\* A hand dealt by next-round to a dealer other than seat 0, in which a bonus
\* tile dealt to a hand was replaced by a tile that was itself a bonus tile
C22_Witness ==
  /\ deals = 2
  /\ gameState # NullGame
  /\ gameState.currentPlayerIndex # 0
  /\ StartOfHand(gameState)
  /\ \E i \in Seats : Len(gameState.players[i].revealedBonuses) >= 2
  /\ \E i \in Seats : \E b \in 1..Len(gameState.players[i].revealedBonuses) :
        gameState.players[i].revealedBonuses[b].id >= 53

(* ----------------------------------------------------------------------- *)
(* The end of the wall                                                     *)
(* ----------------------------------------------------------------------- *)

\* The room as constructed
NewRoom ==
  [status |-> "waiting", lobbyPlayers |-> <<>>, gameState |-> NullGame,
   aiPlayerIndices |-> {}, humanConnections |-> [i \in Seats |-> NoConn],
   connectionToPlayer |-> [c \in AllConnIds |-> NullIdx],
   reconnectTokens |-> [t \in Tokens \cup {NoToken} |-> NullIdx],
   claimResponses |-> [i \in Seats |-> NoResp], claimTimer |-> NoClaimTimer,
   leakedClaimTimers |-> [i \in Seats |-> 0], aiTimer |-> NoTimer,
   disconnectTimers |-> {}, leakedGraceTimers |-> [i \in Seats |-> 0],
   roundOver |-> <<>>, claimWindow |-> NoClaimWindow, resolution |-> NoResolution,
   crashed |-> FALSE]

\* Two clients join and the host starts the game on deck defs
Started(defs) ==
  handleStartGame(onConnect(onConnect(NewRoom, 1, NoToken), 2, NoToken), 1, defs)

\* One event of a game played by the book: the pending bot callback runs; or
\* the claim timer runs out on humans who let it; or the human whose turn it
\* is draws, or discards the last tile of its hand.
Played(r0) ==
  Let([r0 EXCEPT !.crashed = FALSE, !.resolution = NoResolution], LAMBDA r :
    LET gs == r.gameState
        i == gs.currentPlayerIndex
        c == r.humanConnections[i]
        player == gs.players[i]
    IN IF r.aiTimer # NoTimer
       THEN runAiTimer([r EXCEPT !.aiTimer = NoTimer], r.aiTimer, NoRnd)
       ELSE IF r.claimTimer.set /\ r.claimTimer.pending
       THEN claimTimeout([r EXCEPT !.claimTimer.pending = FALSE], r.claimTimer.discarder)
       ELSE IF Len(player.hand) + 3 * Len(player.melds) = 13
       THEN handleAction(r, c, "draw", NullTile.id, -1, NoRnd)
       ELSE handleAction(r, c, "discard", player.hand[Len(player.hand)].id, -1, NoRnd))

\* n events of the game played by the book, stopping early once the hand is
\* over or at most `left` tiles are in the wall
RECURSIVE PlayedDown(_, _, _)
PlayedDown(r0, n, left) ==
  Let(r0, LAMBDA r :
    IF n = 0 \/ r.gameState.phase # "playing" \/ Len(r.gameState.wall) <= left THEN r
    ELSE IF n = 1 THEN Played(r)
    ELSE PlayedDown(PlayedDown(r, n \div 2, left), n - (n \div 2), left))

\* Events played before the exploration starts, at most
MaxPlayed == 300
\* The offsets of the stride-5 shuffles played down to the end of the wall
LateOffsets == {0, 12, 36}

\* A game of two humans and two bots, played by the book until at most `left`
\* tiles are in the wall
LateRoom(k, left) == PlayedDown(Started(Shuffle(5, k)), MaxPlayed, left)

LateInit ==
  \E k \in LateOffsets : \E left \in 0..MaxLeft : \E r \in {LateRoom(k, left)} :
    /\ r.gameState.phase = "playing"
    /\ Len(r.gameState.wall) <= left
    /\ status = r.status
    /\ lobbyPlayers = r.lobbyPlayers
    /\ gameState = r.gameState
    /\ aiPlayerIndices = r.aiPlayerIndices
    /\ humanConnections = r.humanConnections
    /\ connectionToPlayer = r.connectionToPlayer
    /\ reconnectTokens = r.reconnectTokens
    /\ claimResponses = r.claimResponses
    /\ claimTimer = r.claimTimer
    /\ leakedClaimTimers = r.leakedClaimTimers
    /\ aiTimer = r.aiTimer
    /\ disconnectTimers = r.disconnectTimers
    /\ leakedGraceTimers = r.leakedGraceTimers
    /\ roundOver = r.roundOver
    /\ claimWindow = r.claimWindow
    /\ resolution = NoResolution
    /\ crashed = FALSE
    /\ connections = [c \in ClientIds |-> IF c \in {1, 2} THEN "open" ELSE "new"]
    /\ deals = 1
    /\ upsets = 0

\* The end of the hand as played by clients that stay connected
LateNext ==
  \/ \E c \in ConnIds : \E d \in 1..Len(Decks) : NextRound(c, d)
  \/ \E c \in ConnIds : Draw(c)
  \/ \E c \in ConnIds : \E t \in DiscardIds(c) : \E rnd \in Rnds : Discard(c, t, rnd)
  \/ \E c \in ConnIds : \E k \in ChiIndices : Chi(c, k)
  \/ \E c \in ConnIds : Pong(c)
  \/ \E c \in ConnIds : \E rnd \in Rnds : Kong(c, rnd)
  \/ \E c \in ConnIds : Win(c)
  \/ \E c \in ConnIds : Pass(c)
  \/ \E d \in Seats : \E referenced \in BOOLEAN : ClaimTimerFires(d, referenced)
  \/ \E rnd \in Rnds : AiTimerFires(rnd)

LateSpec == LateInit /\ [][LateNext]_vars

Scores(gs) == [i \in Seats |-> gs.players[i].score]

\* Handling the event leaves r: the round is over without a winner and with
\* the scores as they were
EndsInDraw(r) ==
  /\ ~r.crashed
  /\ r.gameState.phase = "finished"
  /\ Len(r.roundOver) = Len(roundOver) + 1
  /\ r.roundOver[Len(r.roundOver)].winnerIndex = NullIdx
  /\ Scores(r.gameState) = Scores(gameState)

\* The wall is empty and seat i, whose turn it is, is about to draw
DrawsFromEmptyWall(i) ==
  /\ HandInProgress
  /\ gameState.wall = <<>>
  /\ i = gameState.currentPlayerIndex

\* Seat i puts a tile of its hand on the table in this step
Discarded(i) ==
  /\ deals' = deals
  /\ \E id \in IdsOf(gameState.players[i].hand) \ IdsOf(gameState'.players[i].hand) :
        id \notin IdsOf(MeldTiles(gameState'.players[i]))

\* C23: with the wall empty, a draw by the current player, sent by a human or
\* made by a bot on its timer, ends the round without a winner, with phase
\* finished and every score unchanged; and a discard made when the wall is
\* empty still gets its claim window, which waits for the humans it was
\* offered to or is resolved in the same step.
C23_WallExhaustion ==
  [][/\ \A c \in ConnIds :
          (Open(c) /\ connectionToPlayer[c] # NullIdx
           /\ DrawsFromEmptyWall(connectionToPlayer[c]))
          => EndsInDraw(handleAction(Begin, c, "draw", NullTile.id, -1, NoRnd))
     /\ \A i \in aiPlayerIndices :
          (DrawsFromEmptyWall(i) /\ aiTimer = TurnTimer)
          => \A rnd \in Rnds : EndsInDraw(runAiTimer([Begin EXCEPT !.aiTimer = NoTimer],
                                                     aiTimer, rnd))
     /\ \A i \in Seats :
          (HandInProgress /\ Discarded(i) /\ gameState'.wall = <<>>)
          => \/ claimWindow'.open /\ claimWindow'.discarder = i
             \/ Resolves /\ resolution'.discarder = i]_vars

\* The last tile of the wall was drawn and discarded, its claim window ran
\* out unclaimed, and the next seat's draw ended the hand in a draw
C23_Witness ==
  /\ gameState # NullGame
  /\ gameState.phase = "finished"
  /\ gameState.wall = <<>>
  /\ deals = 1
  /\ upsets = 0
  /\ Len(roundOver) = 1
  /\ roundOver[1].winnerIndex = NullIdx
  /\ gameState.lastDiscard # NullTile
  /\ claimTimer.set /\ ~claimTimer.pending
  /\ claimTimer.discarder = gameState.lastDiscardPlayer

\* C24: a claim window opened on a promoted kong tile is resolved by a win or
\* by nothing; no chi, pong or kong is carried out on the promoted tile, which
\* stays in no meld but the promoting player's kong.
C24_RobWindowOnlyWin ==
  [][(Resolves /\ resolution'.rob)
       => /\ resolution'.effect \in {"win", "pass"}
          /\ \A i \in Seats \ {resolution'.discarder} :
                resolution'.discard.id \notin IdsOf(MeldTiles(gameState'.players[i]))]_vars

\* Seat p holds a kong meld of four tiles, tile among them, and not the tile
KongCompleted(gs, p, tile) ==
  /\ tile.id \notin IdsOf(gs.players[p].hand)
  /\ \E m \in 1..Len(gs.players[p].melds) :
        /\ gs.players[p].melds[m].type = "kong"
        /\ Len(gs.players[p].melds[m].tiles) = 4
        /\ tile.id \in IdsOf(gs.players[p].melds[m].tiles)
        /\ \A t \in 1..4 :
              tilesMatch(gs.players[p].melds[m].tiles[t].definition, tile.definition)

\* C25: when the claim window on a promoted kong tile is resolved and nobody
\* wins, every potential robber having passed or let the timer run out, the
\* promoting player holds the kong as a meld of four tiles and no longer
\* holds the promoted tile.
C25_DeclinedRobbery ==
  [][(Resolves /\ resolution'.rob /\ resolution'.effect # "win")
       => KongCompleted(gameState', resolution'.discarder, resolution'.discard)]_vars

\* Seat i has one meld more after this step, a chi
ChiMeldCreated(i) ==
  /\ deals' = deals
  /\ Len(gameState'.players[i].melds) = Len(gameState.players[i].melds) + 1
  /\ gameState'.players[i].melds[Len(gameState'.players[i].melds)].type = "chi"

\* meld is a run of three consecutive values of one suit, made of tile and of
\* two distinct tiles of hand
IsRunWith(meld, tile, hand) ==
  LET values == {meld.tiles[t].definition.value : t \in 1..Len(meld.tiles)}
  IN /\ Len(meld.tiles) = 3
     /\ tile.definition.type = "suit"
     /\ \A t \in 1..3 : /\ meld.tiles[t].definition.type = "suit"
                        /\ meld.tiles[t].definition.kind = tile.definition.kind
     /\ \E v \in 1..7 : values = {v, v + 1, v + 2}
     /\ tile.id \in IdsOf(meld.tiles)
     /\ Cardinality(IdsOf(meld.tiles) \ {tile.id}) = 2
     /\ IdsOf(meld.tiles) \ {tile.id} \subseteq IdsOf(hand)

\* C26: every chi meld is created by resolving a claim to chi made by the seat
\* right after the discarder, (discarder + 1) mod 4 = claimer, and it is a run
\* of three consecutive values of one suit made of the claimed suit tile and
\* two distinct tiles from the claimer's hand.
C26_ChiSource ==
  [][\A i \in Seats :
       ChiMeldCreated(i)
       => /\ resolution'.effect = "chi"
          /\ resolution'.who = i
          /\ resolution'.discarder # NullIdx
          /\ (resolution'.discarder + 1) % 4 = i
          /\ IsRunWith(gameState'.players[i].melds[Len(gameState'.players[i].melds)],
                       resolution'.discard, gameState.players[i].hand)]_vars

\* A seat has just taken a discard from the seat before it into a chi meld
C26_Witness ==
  /\ resolution.effect = "chi"
  /\ ~resolution.rob
  /\ resolution.who = (resolution.discarder + 1) % 4
  /\ Len(gameState.players[resolution.who].melds) > 0
  /\ gameState.players[resolution.who].melds[
        Len(gameState.players[resolution.who].melds)].type = "chi"
  /\ resolution.discard.id \in IdsOf(MeldTiles(gameState.players[resolution.who]))

(* ----------------------------------------------------------------------- *)
(* Bonus tiles.  The hands explored: one whose wall ends in two bonus      *)
(* tiles, one whose last two tiles are a bonus tile and its replacement,   *)
(* one whose last tile is a bonus tile, and the start of DeckKongs, where  *)
(* every kong replacement is drawn from the bonus tiles at the tail of the *)
(* wall.                                                                   *)
(* ----------------------------------------------------------------------- *)

BonusRooms ==
  {PlayedDown(Started(Shuffle(7, 48)), MaxPlayed, 2),
   PlayedDown(Started(Shuffle(19, 24)), MaxPlayed, 2),
   PlayedDown(Started(Shuffle(5, 36)), MaxPlayed, 2),
   Started(DeckKongs)}

\* Stepping through generateTileSet by s visits every tile once
IsStride(s) ==
  {((i - 1) * s) % Len(generateTileSet) : i \in 1..Len(generateTileSet)}
    = 0..(Len(generateTileSet) - 1)

BonusInit ==
  /\ \A s \in {5, 7, 19} : IsStride(s)
  /\ \E r \in BonusRooms :
      /\ r.gameState.phase = "playing"
      /\ status = r.status
      /\ lobbyPlayers = r.lobbyPlayers
      /\ gameState = r.gameState
      /\ aiPlayerIndices = r.aiPlayerIndices
      /\ humanConnections = r.humanConnections
      /\ connectionToPlayer = r.connectionToPlayer
      /\ reconnectTokens = r.reconnectTokens
      /\ claimResponses = r.claimResponses
      /\ claimTimer = r.claimTimer
      /\ leakedClaimTimers = r.leakedClaimTimers
      /\ aiTimer = r.aiTimer
      /\ disconnectTimers = r.disconnectTimers
      /\ leakedGraceTimers = r.leakedGraceTimers
      /\ roundOver = r.roundOver
      /\ claimWindow = r.claimWindow
      /\ resolution = NoResolution
      /\ crashed = FALSE
      /\ connections = [c \in ClientIds |-> IF c \in {1, 2} THEN "open" ELSE "new"]
      /\ deals = 1
      /\ upsets = 0

BonusSpec == BonusInit /\ [][LateNext]_vars

\* The ids of the flower and animal tiles among tiles
BonusIds(tiles) ==
  {tiles[t].id : t \in {u \in 1..Len(tiles) : tiles[u].definition.type = "bonus"}}

\* How many flower and animal tiles the tile set has
NumBonus ==
  Cardinality({d \in 1..Len(generateTileSet) : generateTileSet[d].type = "bonus"})

\* No flower or animal is in a hand, a discard pile or a meld; each one is
\* still in the wall or among the revealed bonuses of the seat that got it
NoLiveBonus(gs) ==
  /\ BonusInHand(gs) = {}
  /\ \A i \in Seats :
        /\ BonusIds(gs.players[i].discards) = {}
        /\ BonusIds(MeldTiles(gs.players[i])) = {}
        /\ BonusIds(gs.players[i].revealedBonuses) = IdsOf(gs.players[i].revealedBonuses)
        /\ Cardinality(IdsOf(gs.players[i].revealedBonuses))
             = Len(gs.players[i].revealedBonuses)
        /\ BonusIds(gs.wall) \cap IdsOf(gs.players[i].revealedBonuses) = {}
        /\ \A j \in Seats \ {i} :
              IdsOf(gs.players[i].revealedBonuses)
                \cap IdsOf(gs.players[j].revealedBonuses) = {}
  /\ Cardinality(BonusIds(gs.wall)
       \cup UNION {IdsOf(gs.players[i].revealedBonuses) : i \in Seats}) = NumBonus

\* C27: in every state of a game (after the deal's replacement step, after
\* every draw, kong replacement and self-kong replacement, whatever the chain
\* of bonus tiles and also when the wall runs out in the middle of a chain) no
\* hand holds a flower or animal tile, and every such tile that left the wall
\* is among the revealed bonuses of one seat.
C27_NoLiveBonus == gameState # NullGame => NoLiveBonus(gameState)

\* The wall ran out in the middle of a chain of bonus tiles: the player who
\* drew revealed them all and got no tile for the hand
C27_Witness ==
  /\ gameState.phase = "finished"
  /\ gameState.wall = <<>>
  /\ LET player == gameState.players[gameState.currentPlayerIndex]
     IN /\ Len(player.hand) + 3 * Len(player.melds) = 13
        /\ Len(player.revealedBonuses) >= 2
        /\ BonusIds(player.hand) = {}

(* ----------------------------------------------------------------------- *)
(* Payments.  endRound passes calculatePayments the winner, the shooter    *)
(* (lastDiscardPlayer, or none on a self-draw) and the basePoints that     *)
(* calculateTai returned: 2^tai, tai from 1 to MaxTai.                     *)
(* ----------------------------------------------------------------------- *)

MaxTai == 10

\* The payments have one entry per player, the amounts sum to 0, and the
\* winner's amount is the sum of the absolute values of the other three
ZeroSum(winnerIndex, payments) ==
  /\ Len(payments) = 4
  /\ \A i \in Seats :
        Cardinality({k \in 1..Len(payments) : payments[k].playerIndex = i}) = 1
  /\ SumSeq([k \in 1..Len(payments) |-> payments[k].amount]) = 0
  /\ \A k \in 1..Len(payments) :
        payments[k].playerIndex = winnerIndex
        => payments[k].amount
             = SumSeq([j \in 1..Len(payments) |->
                         IF j = k THEN 0 ELSE Abs(payments[j].amount)])

\* C28: whatever the winner, the shooter (or none) and basePoints,
\* calculatePayments returns four entries, one per player, whose amounts sum
\* to 0, and the winner's entry is the sum of the absolute values of the three
\* losers' entries.
C28_PaymentsZeroSum ==
  /\ \A winnerIndex \in Seats : \A shooterIndex \in Seats \cup {NullIdx} :
       \A tai \in 1..MaxTai :
         ZeroSum(winnerIndex,
                 calculatePayments(winnerIndex, shooterIndex, Pow2(tai)).payments)
  /\ \A m \in 1..Len(roundOver) :
       roundOver[m].winnerIndex # NullIdx
       => /\ ZeroSum(roundOver[m].winnerIndex, roundOver[m].paymentResult.payments)
          /\ \E shooterIndex \in Seats \cup {NullIdx} :
                roundOver[m].paymentResult
                  = calculatePayments(roundOver[m].winnerIndex, shooterIndex,
                                      roundOver[m].taiResult.basePoints)

\* Seat 1 has won on a tile the dealer discarded.  resolveClaimWindow clears
\* lastDiscardPlayer before endRound reads it, so the payments of the round
\* are those without a shooter: each of the three others pays the base
\* points and the winner receives three times as much.  With the dealer as
\* shooter calculatePayments has the dealer pay twice and the winner receive
\* four times the base points.
C28_Witness ==
  /\ Len(roundOver) = 1
  /\ gameState.phase = "finished"
  /\ LET msg == roundOver[1]
         payments == msg.paymentResult.payments
         basePoints == msg.taiResult.basePoints
         hand == gameState.players[1].hand
         shot == calculatePayments(1, 0, basePoints)
     IN /\ msg.winnerIndex = 1
        /\ gameState.players[0].discards = <<>>
        /\ Len(hand) = 14
        /\ hand[14].id <= 12
        /\ basePoints >= 2
        /\ msg.paymentResult = calculatePayments(1, NullIdx, basePoints)
        /\ msg.paymentResult.winnerReceives = 3 * basePoints
        /\ \A k \in 1..3 : payments[k].amount = 0 - basePoints
        /\ payments[4] = [playerIndex |-> 1, amount |-> 3 * basePoints]
        /\ shot.payments[1] = [playerIndex |-> 0, amount |-> 0 - 2 * basePoints]
        /\ shot.payments[4] = [playerIndex |-> 1, amount |-> 4 * basePoints]
        /\ ZeroSum(1, shot.payments)

(* ----------------------------------------------------------------------- *)
(* The view of the game a player is sent (filterStateForPlayer)            *)
(* ----------------------------------------------------------------------- *)

\* filterStateForPlayer showing every hand
filterStateForPlayerOpen(r, gs, playerIdx) ==
  [players |-> [i \in Seats |->
      [seatWind |-> gs.players[i].seatWind,
       hand |-> gs.players[i].hand,
       handCount |-> Len(gs.players[i].hand),
       discards |-> gs.players[i].discards,
       melds |-> gs.players[i].melds,
       revealedBonuses |-> gs.players[i].revealedBonuses,
       isCurrentTurn |-> gs.players[i].isCurrentTurn,
       score |-> gs.players[i].score,
       isAI |-> i \in r.aiPlayerIndices]],
   currentPlayerIndex |-> gs.currentPlayerIndex,
   roundWind |-> gs.roundWind,
   roundNumber |-> gs.roundNumber,
   turnNumber |-> gs.turnNumber,
   lastDiscard |-> gs.lastDiscard,
   lastDiscardPlayer |-> gs.lastDiscardPlayer,
   tilesRemaining |-> gs.tilesRemaining,
   phase |-> gs.phase,
   myIndex |-> playerIdx]

filterStateForPlayer(r, gs, playerIdx) ==
  [players |-> [i \in Seats |->
      [seatWind |-> gs.players[i].seatWind,
       hand |-> IF i = playerIdx THEN gs.players[i].hand ELSE <<>>,
       handCount |-> Len(gs.players[i].hand),
       discards |-> gs.players[i].discards,
       melds |-> gs.players[i].melds,
       revealedBonuses |-> gs.players[i].revealedBonuses,
       isCurrentTurn |-> gs.players[i].isCurrentTurn,
       score |-> gs.players[i].score,
       isAI |-> i \in r.aiPlayerIndices]],
   currentPlayerIndex |-> gs.currentPlayerIndex,
   roundWind |-> gs.roundWind,
   roundNumber |-> gs.roundNumber,
   turnNumber |-> gs.turnNumber,
   lastDiscard |-> gs.lastDiscard,
   lastDiscardPlayer |-> gs.lastDiscardPlayer,
   tilesRemaining |-> gs.tilesRemaining,
   phase |-> gs.phase,
   myIndex |-> playerIdx]

\* gs with the first tiles of the hands of seats i and j exchanged
HandsExchanged(gs, i, j) ==
  [gs EXCEPT !.players[i].hand = <<gs.players[j].hand[1]>> \o Tail(@),
             !.players[j].hand = <<gs.players[i].hand[1]>> \o Tail(@)]

\* gs with the first tile of seat i's hand and the head of the wall exchanged
HandAndWallExchanged(gs, i) ==
  [gs EXCEPT !.players[i].hand = <<gs.wall[1]>> \o Tail(@),
             !.wall = <<gs.players[i].hand[1]>> \o Tail(@)]

\* gs with the wall in the opposite order
WallReversed(gs) ==
  [gs EXCEPT !.wall = [t \in 1..Len(@) |-> @[Len(@) + 1 - t]]]

\* Game states that agree with gs on everything but on which tiles are in the
\* hands of the seats other than p and in the wall; hand sizes and the length
\* of the wall are those of gs
HiddenVariants(gs, p) ==
  LET others == {i \in Seats \ {p} : gs.players[i].hand # <<>>}
  IN {WallReversed(gs)}
     \cup {HandsExchanged(gs, i, j) : i \in others, j \in others}
     \cup (IF gs.wall = <<>> THEN {}
           ELSE {HandAndWallExchanged(gs, i) : i \in others}
                \cup {HandAndWallExchanged(WallReversed(gs), i) : i \in others})

\* C29: the view sent to player p is the same for any two game states that
\* differ only in which tiles are in the other players' hands (of the same
\* sizes) and in the wall (of the same length); it holds p's own hand in full
\* and, for every other hand, no tile and the tile count.
C29_ViewProjection ==
  gameState # NullGame
  => \A p \in Seats :
       LET view == filterStateForPlayer(This, gameState, p)
       IN /\ \A v \in HiddenVariants(gameState, p) :
                filterStateForPlayer(This, v, p) = view
          /\ view.players[p].hand = gameState.players[p].hand
          /\ \A i \in Seats \ {p} :
                /\ view.players[i].hand = <<>>
                /\ view.players[i].handCount = Len(gameState.players[i].hand)

\* In a hand being played, a seat's view does not tell the game from one where
\* another seat holds a different tile, taken from the head of the wall
C29_Witness ==
  /\ gameState.phase = "playing"
  /\ gameState.wall # <<>>
  /\ Len(gameState.players[0].discards) > 0
  /\ Len(gameState.players[1].hand) = 13
  /\ gameState.wall[1].definition # gameState.players[1].hand[1].definition
  /\ HandAndWallExchanged(gameState, 1) \in HiddenVariants(gameState, 0)
  /\ HandAndWallExchanged(gameState, 1) # gameState
  /\ filterStateForPlayer(This, HandAndWallExchanged(gameState, 1), 0)
       = filterStateForPlayer(This, gameState, 0)

\* The roster r holds after an accepted start-game sent with humanCount
\* players in the lobby: four seats, the joined humans first, each bound to
\* its connection, then bots
RosterLocked(r, humanCount) ==
  /\ r.status = "in-game"
  /\ Len(r.lobbyPlayers) = 4
  /\ \A i \in Seats :
        IF i < humanCount
        THEN /\ i \notin r.aiPlayerIndices
             /\ r.humanConnections[i] = r.lobbyPlayers[i + 1].connectionId
             /\ r.connectionToPlayer[r.lobbyPlayers[i + 1].connectionId] = i
        ELSE /\ i \in r.aiPlayerIndices
             /\ r.humanConnections[i] = NoConn
             /\ r.lobbyPlayers[i + 1].connectionId = AiConnId(i)

\* C30: start-game changes the room only when the host sends it while the
\* room is in the lobby; from a non-host, and once a game is in progress, it
\* leaves game state, scores and roster as they are; when it takes effect the
\* roster is locked at four seats, bots after the joined humans, every human
\* seat bound to its connection.
C30_StartGameHostInLobby ==
  \A c \in ConnIds : \A d \in 1..Len(Decks) :
    Open(c)
    => LET r == handleStartGame(Begin, c, Decks[d])
           h == LobbyIndexOf(Begin, c)
           isHost == h # 0 /\ lobbyPlayers[h].isHost
       IN IF isHost /\ status = "waiting"
          THEN RosterLocked(r, Len(lobbyPlayers))
          ELSE r = Begin

(* ----------------------------------------------------------------------- *)
(* Hands.  Games of two humans and two bots started on the shuffles        *)
(* HandDeck(a, b, d): the dealer is dealt three pongs of dragons, two      *)
(* north winds and the tiles a, seat 1 three pongs, two 5-dot and the      *)
(* tiles b, the bots tiles that claim nothing, and d heads the wall.  The  *)
(* two clients draw, discard, claim by pong, pass and declare wins.        *)
(* ----------------------------------------------------------------------- *)

\* The definitions a, b and d are taken from
HandDefs == <<C(1), C(2), C(3), WindT("east")>>

\* The non-decreasing choices of n definitions of HandDefs
Picks(n) ==
  {pick \in [1..n -> 1..Len(HandDefs)] : \A i \in 1..(n - 1) : pick[i] <= pick[i + 1]}

DefsOf(pick) == [i \in 1..Len(pick) |-> HandDefs[pick[i]]]

\* No definition has more than four tiles
AtMostFour(pick) ==
  \A d \in 1..Len(HandDefs) : Cardinality({i \in 1..Len(pick) : pick[i] = d}) <= 4

\* The 13 tiles dealt to each seat, the dealer's 14th tile and the head of
\* the wall
HandDealt(a, b, d) ==
  (DefsOf(a) \o Copies(WindT("north"), 2) \o Copies(DragonT("red"), 3)
     \o Copies(DragonT("green"), 3) \o Copies(DragonT("white"), 2))
  \o (DefsOf(b) \o Copies(B(9), 3) \o Copies(D(5), 2)
        \o Copies(WindT("south"), 3) \o Copies(WindT("west"), 3))
  \o <<C(5), B(1), B(2), B(3), B(4), B(5), B(6), D(1), D(2), D(3), D(7), D(8), D(9)>>
  \o <<C(6), C(7), C(8), C(9), B(7), B(8), D(1), D(2), D(3), D(4), D(6), D(7), D(8)>>
  \o <<DragonT("white")>> \o DefsOf(d)

\* The tiles of generateTileSet that are not in dealt, in its order
RestOf(dealt) ==
  SelectSeq([i \in 1..Len(generateTileSet) |->
               [n |-> IF generateTileSet[i].type = "bonus" THEN 5 ELSE ((i - 1) % 4) + 1,
                definition |-> generateTileSet[i]]],
            LAMBDA e : e.n > Len(SelectSeq(dealt, LAMBDA x : x = e.definition)))

HandDeck(a, b, d) ==
  Let(HandDealt(a, b, d), LAMBDA dealt :
    dealt \o Let(RestOf(dealt), LAMBDA rest : [i \in 1..Len(rest) |-> rest[i].definition]))

HandInit ==
  \E a \in Picks(3) : \E b \in Picks(2) : \E d \in Picks(1) :
    /\ AtMostFour(a \o b \o d)
    /\ \E r \in {Started(HandDeck(a, b, d))} :
      /\ IsShuffle(HandDeck(a, b, d))
      /\ status = r.status
      /\ lobbyPlayers = r.lobbyPlayers
      /\ gameState = r.gameState
      /\ aiPlayerIndices = r.aiPlayerIndices
      /\ humanConnections = r.humanConnections
      /\ connectionToPlayer = r.connectionToPlayer
      /\ reconnectTokens = r.reconnectTokens
      /\ claimResponses = r.claimResponses
      /\ claimTimer = r.claimTimer
      /\ leakedClaimTimers = r.leakedClaimTimers
      /\ aiTimer = r.aiTimer
      /\ disconnectTimers = r.disconnectTimers
      /\ leakedGraceTimers = r.leakedGraceTimers
      /\ roundOver = r.roundOver
      /\ claimWindow = r.claimWindow
      /\ resolution = NoResolution
      /\ crashed = FALSE
      /\ connections = [c \in ClientIds |-> IF c \in {1, 2} THEN "open" ELSE "new"]
      /\ deals = 1
      \* the clients send nothing with an effect the protocol does not call for
      /\ upsets = MaxUpsets

\* The first turns of the hand as played by the two clients.  The bots hold
\* no two tiles that claim a discard, so that no Math.random() draw of theirs
\* is consulted.
HandNext ==
  \/ \E c \in ConnIds : Draw(c)
  \/ \E c \in ConnIds : \E t \in DiscardIds(c) : Discard(c, t, NoRnd)
  \/ \E c \in ConnIds : Pong(c)
  \/ \E c \in ConnIds : Win(c)
  \/ \E c \in ConnIds : Pass(c)
  \/ \E d \in Seats : \E referenced \in BOOLEAN : ClaimTimerFires(d, referenced)

HandSpec == HandInit /\ [][HandNext]_vars

\* How many tiles of each definition the hand has
CountOf(hand) ==
  [d \in Range(generateTileSet) |->
     Cardinality({i \in 1..Len(hand) : hand[i].definition = d})]

\* The definition with tiles left that comes first in the order of tileOrder
Lowest(bag) ==
  CHOOSE d \in DOMAIN bag :
    /\ bag[d] > 0
    /\ \A e \in DOMAIN bag : bag[e] > 0 => tileOrder(d) <= tileOrder(e)

Minus(bag, d, n) == [bag EXCEPT ![d] = @ - n]

\* The tiles of bag can be split into triplets of one definition and runs of
\* three consecutive values of one suit: the lowest tile is in a triplet, or it
\* starts a run
RECURSIVE SplitsIntoSets(_)
SplitsIntoSets(bag) ==
  IF \A d \in DOMAIN bag : bag[d] = 0 THEN TRUE
  ELSE LET d == Lowest(bag)
           d2 == [d EXCEPT !.value = @ + 1]
           d3 == [d EXCEPT !.value = @ + 2]
       IN \/ bag[d] >= 3 /\ SplitsIntoSets(Minus(bag, d, 3))
          \/ /\ d.type = "suit" /\ d.value <= 7
             /\ bag[d2] > 0 /\ bag[d3] > 0
             /\ SplitsIntoSets(Minus(Minus(Minus(bag, d, 1), d2, 1), d3, 1))

\* The hand is one pair plus sets
PairAndSets(hand) ==
  \E d \in Range(generateTileSet) :
    /\ CountOf(hand)[d] >= 2
    /\ SplitsIntoSets(Minus(CountOf(hand), d, 2))

\* C31: checkWin returns true exactly for the hands of 14 - 3 * meldCount tiles
\* that are one pair plus triplets and runs, in whatever order the hand array
\* holds the tiles, and false for a hand of any other size.
C31_CheckWin ==
  \A i \in Seats :
    LET p == gameState.players[i]
    IN checkWin(p.hand, p.melds)
         = (Len(p.hand) = 14 - 3 * Len(p.melds) /\ PairAndSets(p.hand))

\* C32: for a display-sorted hand and every tile t in it, checkWin of the
\* hand equals checkWinWithTile of the hand without t, given t; the hand is
\* passed by value, so checkWinWithTile leaves it as it was.
C32_RoundTrip ==
  \A i \in Seats :
    LET p == gameState.players[i]
    IN p.hand = sortHand(p.hand)
         => \A k \in 1..Len(p.hand) :
              checkWin(p.hand, p.melds)
                = checkWinWithTile(RemoveAt(p.hand, k), p.melds, p.hand[k])

\* The sum of the tai of the entries of a breakdown
BreakdownSum(breakdown) == SumSeq([i \in 1..Len(breakdown) |-> breakdown[i].tai])

\* A TaiResult whose tai is the sum of its breakdown brought into 1..10 and
\* whose basePoints is 2 to the power of that tai
ClampedResult(t) ==
  LET sum == BreakdownSum(t.breakdown)
  IN /\ t.tai = (IF sum < 1 THEN 1 ELSE IF sum > 10 THEN 10 ELSE sum)
     /\ t.basePoints = 2 ^ t.tai
     /\ t.basePoints >= 2 /\ t.basePoints <= 1024

\* C33: for a winning player, either self-draw flag and every round wind,
\* calculateTai returns the sum of its breakdown clamped to 1..10 and
\* basePoints 2^tai (between 2 and 1024); the result of a round won is such a
\* result.
C33_TaiClamp ==
  /\ \A i \in Seats :
       LET p == gameState.players[i]
       IN checkWin(p.hand, p.melds)
            => \A isSelfDraw \in BOOLEAN : \A w \in 1..4 :
                 ClampedResult(calculateTai(p, isSelfDraw, WindNames[w]))
  /\ \A k \in 1..Len(roundOver) :
       roundOver[k].winnerIndex # NullIdx => ClampedResult(roundOver[k].taiResult)

\* A round won whose breakdown adds up to more than ten tai
C33_Witness ==
  /\ roundOver # <<>>
  /\ roundOver[1].winnerIndex # NullIdx
  /\ gameState.phase = "finished"
  /\ BreakdownSum(roundOver[1].taiResult.breakdown) > 10
  /\ roundOver[1].taiResult.tai = 10
  /\ roundOver[1].taiResult.basePoints = 1024

\* A round won whose breakdown adds up to less than ten tai
C33_WitnessBelow ==
  /\ roundOver # <<>>
  /\ roundOver[1].winnerIndex # NullIdx
  /\ gameState.phase = "finished"
  /\ BreakdownSum(roundOver[1].taiResult.breakdown) \in 1..9
  /\ roundOver[1].taiResult.tai = BreakdownSum(roundOver[1].taiResult.breakdown)

\* A player with no melds whose tiles span more than one suit and are not all
\* terminals: no pattern of the scorer on the tiles or the melds applies
PlainConcealed(p) ==
  /\ p.melds = <<>>
  /\ Cardinality({p.hand[i].definition.kind :
                    i \in {j \in 1..Len(p.hand) : p.hand[j].definition.type = "suit"}}) > 1
  /\ \E i \in 1..Len(p.hand) :
        ~(p.hand[i].definition.type = "suit" /\ p.hand[i].definition.value \in {1, 9})

\* C34: a self-drawn win of a player with a plain concealed hand is reported
\* with tai 2 (concealed hand and self-draw only) and basePoints 4.
C34_PlainSelfDraw ==
  [][\A w \in Seats :
       (WinsOnOwnDraw(w) /\ PlainConcealed(gameState'.players[w]))
         => /\ Ending.taiResult.tai = 2
            /\ Ending.taiResult.basePoints = 4]_vars

\* The seats other than the discarder whose answer in the resolved window is
\* `action`
Answered(res, action) ==
  {i \in Seats : i # res.discarder /\ res.responses[i].action = action}

\* The seats whose kong, or pong, answer can be carried out on the discard
ValidKongers(gs, res) ==
  {i \in Answered(res, "kong") : canKong(gs.players[i].hand, res.discard.definition) # <<>>}

ValidPongers(gs, res) ==
  {i \in Answered(res, "pong") : canPong(gs.players[i].hand, res.discard.definition) # <<>>}

\* The seat after the discarder answered chi and holds a run for the discard
ValidChi(gs, res) ==
  LET chiPlayer == (res.discarder + 1) % 4
  IN /\ res.responses[chiPlayer].action = "chi"
     /\ canAllChi(gs.players[chiPlayer].hand, res.discard.definition,
                  chiPlayer, res.discarder) # <<>>

\* C35: when a claim window with no win answer is resolved, a kong answer that
\* can be carried out is applied before any pong or chi answer and a pong
\* answer before a chi answer of another seat; one claim is applied: the
\* claimer alone gains one meld, and it is the current player after the step,
\* a bot claimer being scheduled to discard.
C35_KongPongChi ==
  [][(/\ Resolves
      /\ deals' = deals
      /\ resolution'.discarder # NullIdx
      /\ resolution'.discard # NullTile
      /\ Answered(resolution', "win") = {})
     => LET res == resolution'
        IN /\ ValidKongers(gameState, res) # {}
                => res.effect = "kong" /\ res.who \in ValidKongers(gameState, res)
           /\ (ValidKongers(gameState, res) = {} /\ ValidPongers(gameState, res) # {})
                => res.effect = "pong" /\ res.who \in ValidPongers(gameState, res)
           /\ (/\ ValidKongers(gameState, res) = {}
               /\ ValidPongers(gameState, res) = {}
               /\ ValidChi(gameState, res))
                => res.effect = "chi" /\ res.who = (res.discarder + 1) % 4
           /\ res.effect \in {"kong", "pong", "chi"}
                => /\ res.who # res.discarder
                   /\ gameState'.currentPlayerIndex = res.who
                   /\ (res.who \in aiPlayerIndices /\ ~RoundEnds)
                        => /\ aiTimer'.fn = "runAiDiscard"
                           /\ aiTimer'.idx = res.who
                   /\ Len(gameState'.players[res.who].melds)
                        = Len(gameState.players[res.who].melds) + 1
                   /\ \A i \in Seats \ {res.who} :
                        gameState'.players[i].melds = gameState.players[i].melds]_vars

\* A window resolved as a pong although the seat after the discarder had
\* answered chi and held a run for the discard
C35_Witness ==
  /\ resolution.effect = "pong"
  /\ ~resolution.rob
  /\ resolution.who # (resolution.discarder + 1) % 4
  /\ ValidChi(gameState, resolution)
  /\ gameState.currentPlayerIndex = resolution.who

\* A window resolved as a kong
C35_WitnessKong ==
  /\ resolution.effect = "kong"
  /\ ~resolution.rob
  /\ gameState.currentPlayerIndex = resolution.who

\* The frame of a claim of three tiles by seat `claimer` between the states
\* before and after it: two tiles leave the claimer's hand, the discard
\* leaves the discarder's pile, a meld of those three tiles is appended, the
\* claimer is to play, and nothing else of the table changes.
ClaimFrame(before, after, claimer, discarder, discard) ==
  LET hand == before.players[claimer].hand
      left == after.players[claimer].hand
      used == IdsOf(hand) \ IdsOf(left)
      pile == before.players[discarder].discards
      melds == after.players[claimer].melds
  IN /\ IdsOf(left) \subseteq IdsOf(hand)
     /\ Len(left) = Len(hand) - 2
     /\ Cardinality(used) = 2
     /\ after.players[discarder].discards = SelectSeq(pile, LAMBDA t : t.id # discard.id)
     /\ Len(after.players[discarder].discards) = Len(pile) - 1
     /\ Len(melds) = Len(before.players[claimer].melds) + 1
     /\ SubSeq(melds, 1, Len(melds) - 1) = before.players[claimer].melds
     /\ Len(melds[Len(melds)].tiles) = 3
     /\ IdsOf(melds[Len(melds)].tiles) = used \cup {discard.id}
     /\ after.players[claimer].revealedBonuses = before.players[claimer].revealedBonuses
     /\ after.lastDiscard = NullTile
     /\ after.lastDiscardPlayer = NullIdx
     /\ after.currentPlayerIndex = claimer
     /\ after.wall = before.wall
     /\ after.turnNumber = before.turnNumber
     /\ \A i \in Seats : after.players[i].score = before.players[i].score
     /\ \A i \in Seats \ {claimer} :
          /\ after.players[i].hand = before.players[i].hand
          /\ after.players[i].melds = before.players[i].melds
          /\ after.players[i].revealedBonuses = before.players[i].revealedBonuses

\* C36: a chi or pong applied to the discard of an open claim window has the
\* frame of a claim; doPong of a seat that lacks two matching tiles, and doChi
\* and doPong when there is no last discard, return the state they were given.
C36_ClaimFrame ==
  [][/\ (/\ resolution'.effect \in {"chi", "pong"}
         /\ deals' = deals
         /\ claimWindow.open
         /\ gameState.lastDiscard = resolution'.discard
         /\ gameState.lastDiscardPlayer = resolution'.discarder)
          => ClaimFrame(gameState, gameState', resolution'.who,
                        resolution'.discarder, resolution'.discard)
     /\ gameState # NullGame
          => \A i \in Seats :
               /\ ~doPongApplies(gameState, i) => doPong(gameState, i) = gameState
               /\ gameState.lastDiscard = NullTile
                    => doChi(gameState, i, Take(gameState.players[i].hand, 2)) = gameState]_vars

\* wall `after` is wall `before` without its first `head` tiles and without
\* its last `tail` tiles
Without(before, after, head, tail) ==
  /\ head + tail <= Len(before)
  /\ after = SubSeq(before, 1 + head, Len(before) - tail)

\* The tiles player i holds in the hand and as revealed bonuses
HeldCount(gs, i) == Len(gs.players[i].hand) + Len(gs.players[i].revealedBonuses)

\* drawTile of seat i takes the first tile of a wall that has one, and one
\* tile of the tail for every bonus tile it replaces
DrawTakesHead(gs, i) ==
  LET after == drawTile(gs, i)
      gone == Len(gs.wall) - Len(after.wall)
  IN gs.wall # <<>>
       => /\ gone >= 1
          /\ Without(gs.wall, after.wall, 1, gone - 1)
          /\ HeldCount(after, i) = HeldCount(gs, i) + gone
          /\ gs.wall[1].id \in IdsOf(after.players[i].hand)
                                 \cup IdsOf(after.players[i].revealedBonuses)
          /\ after.tilesRemaining = Len(after.wall)

\* A kong of seat i that applies takes its replacement tiles from the tail
KongTakesTail(gs, after) ==
  LET gone == Len(gs.wall) - Len(after.wall)
  IN /\ gs.wall # <<>> => gone >= 1
     /\ Without(gs.wall, after.wall, 0, gone)
     /\ after.tilesRemaining = Len(after.wall)

\* C37: a normal draw removes the first tile of the wall; the replacement
\* tiles of a bonus tile drawn, of a claimed kong, of a self-kong and of the
\* bonus tiles of a deal are removed from the end of the wall; the tiles left
\* in the wall keep their order, and tilesRemaining is the length of the wall.
C37_WallEnds ==
  [][/\ gameState' # NullGame => gameState'.tilesRemaining = Len(gameState'.wall)
     /\ (gameState # NullGame /\ gameState' # NullGame /\ deals' = deals)
          => \E head \in {0, 1} : \E tail \in 0..Len(gameState.wall) :
               Without(gameState.wall, gameState'.wall, head, tail)
     /\ (gameState' # NullGame /\ deals' # deals)
          => /\ \A k \in 1..Len(gameState'.wall) : gameState'.wall[k].id = 52 + k
             /\ Len(gameState'.wall)
                  = 91 - SumSeq([i \in 1..4 |-> Len(gameState'.players[i - 1].revealedBonuses)])
     /\ gameState # NullGame
          => \A i \in Seats :
               /\ DrawTakesHead(gameState, i)
               /\ doKongApplies(gameState, i)
                    => KongTakesTail(gameState, doKong(gameState, i))
               /\ doSelfKongApplies(gameState, i)
                    => KongTakesTail(gameState, doSelfKong(gameState, i))]_vars

\* Tiles have left the wall at both ends: the first tile is not the first
\* tile dealt into the wall, a player holds as a revealed bonus a tile that
\* lay behind the present end of the wall, and a kong meld lies on the table
C37_Witness ==
  /\ gameState # NullGame
  /\ gameState.wall # <<>>
  /\ gameState.wall[1].id > 53
  /\ gameState.tilesRemaining = Len(gameState.wall)
  /\ \E i \in Seats :
        /\ \E m \in 1..Len(gameState.players[i].melds) :
              gameState.players[i].melds[m].type \in {"kong", "concealed-kong"}
        /\ \E b \in 1..Len(gameState.players[i].revealedBonuses) :
              gameState.players[i].revealedBonuses[b].id
                > gameState.wall[Len(gameState.wall)].id

\* The hands of the four seats
Hands(gs) == [i \in Seats |-> gs.players[i].hand]

\* C38: while a claim window is open, a draw or a discard sent by the
\* discarder changes neither the wall nor any hand and opens no second claim
\* window with a second timer.
C38_FrozenTable ==
  [][\A c \in ConnIds :
       (/\ claimWindow.open
        /\ gameState # NullGame
        /\ gameState.lastDiscard # NullTile
        /\ connectionToPlayer[c] = claimWindow.discarder
        /\ \/ Draw(c)
           \/ \E t \in DiscardIds(c) : \E rnd \in Rnds : Discard(c, t, rnd))
       => /\ gameState'.wall = gameState.wall
          /\ Hands(gameState') = Hands(gameState)
          /\ claimTimer' = claimTimer
          /\ leakedClaimTimers' = leakedClaimTimers]_vars

\* C39: once the phase is finished, a step that is neither a connection event
\* nor a deal (an action message, a bot timer or a claim timer) changes no
\* hand, not the wall and no score, and emits no further round-over.
C39_FinishedStaysFinished ==
  [][(/\ gameState # NullGame
      /\ gameState.phase = "finished"
      /\ connections' = connections
      /\ deals' = deals)
     => /\ Hands(gameState') = Hands(gameState)
        /\ gameState'.wall = gameState.wall
        /\ Scores(gameState') = Scores(gameState)
        /\ roundOver' = roundOver]_vars

\* C40: while a game is running the seat -> connection map and the
\* connection -> seat map are inverse to each other: the connection bound to
\* a seat is bound to that seat, and the seat a connection is bound to is
\* bound to that connection.
C40_InverseBindings ==
  status = "in-game"
    => /\ \A i \in Seats :
            humanConnections[i] # NoConn
              => connectionToPlayer[humanConnections[i]] = i
       /\ \A c \in AllConnIds :
            connectionToPlayer[c] # NullIdx
              => humanConnections[connectionToPlayer[c]] = c
====
